---- MODULE Spec2Model ----
(***************************************************************************)
(* A model of berserker: the supervisor of src/src/lib.rs (fan-out over    *)
(* cores and workers, port cursor, watchdog and reaper threads) and the    *)
(* network client of src/src/worker/network.rs (static and dynamic         *)
(* connection population over a socket set).                               *)
(***************************************************************************)
EXTENDS Integers, Sequences, FiniteSets, TLC

\* ---------------------------------------------------------------- bounds
MaxWorkers == 2
MaxCores == 2
MaxSlots == 2
MaxDraw == 2
MaxDuration == 2
TicksPerSec == 2
MaxStart == 1
MaxJitter == 1
MaxStatic == 1
MaxDyn == 2
MaxTotal == 4
MaxIndex == 3
MaxInterval == 2
MaxPorts == 2
MaxBindDelay == 1
MaxConns == 2
MaxReplies == 1
MaxErrs == 2
MaxSpawn == 3
MaxProgs == 2
MaxParks == 2
MaxPollDelay == 102

\* ------------------------------------------------------- program constants
FirstPort == 1024
SleepSecs == 1
BasePort == 49152

None == 0
\* smoltcp::time::Duration::from_millis(100)
min_duration == 100
\* u16::MAX, the largest port a PortRange can hold
MaxPort == 65535

VARIABLES
  \* supervisor, run() of lib.rs
  config,      \* WorkloadConfig: per_core, workers, duration, workload
  online,      \* number of online cores the machine reports
  pc,          \* "fanout", "scope", "done": where run() is
  slot,        \* next element of iproduct!(core_ids, 0..workers), 1-based
  lower,       \* let mut lower
  upper,       \* let mut upper, the port cursor
  made,        \* the Worker values constructed so far, in construction order
  handles,     \* Vec<Option<pid>>: one entry per slot
  child,       \* per slot: the forked child process, or absent
  now,         \* time since duration_timer, in ticks
  wpc,         \* watchdog thread: "off", "sleep", "kill", "done"
  wake,        \* tick at which the watchdog's sleep(1 s) is over
  wi,          \* watchdog's position in processes.iter().flatten()
  rpc,         \* reaper thread: "off", "wait", "done"
  ri,          \* reaper's position in processes.iter().flatten()
  \* history of the run, read by the properties only
  forked,      \* pids of the forks that succeeded, in fork order
  draws,       \* the port counts drawn by Worker::new, in construction order
  killLog,     \* kill() calls of the watchdog, in call order
  waitLog,     \* waitpid() calls that returned Ok, in call order
  waitErr,     \* the error of the waitpid() call that failed, or "none"
  sigAt,       \* per slot: tick at which SIGTERM reached the child, or -1
  overslept,   \* some sleep of the watchdog lasted longer than asked
  scopeAt,     \* tick at which thread::scope started, or -1
  \* network client, NetworkWorker::start_client of worker/network.rs
  ncfg,            \* Workload::Network: connections_static, connections_dyn_max,
                   \* conns_per_addr, preempt, send_interval, address
  npc,             \* "setup", "arrival", "process", "close", "wait", "panicked"
  sockets,         \* SocketSet: handle -> socket, or NoSocket for a free slot
  dynamic_sockets, \* HashMap: handle -> (age of the connection, lifetime), in ms
  total_conns,     \* let mut total_conns
  close_sockets,   \* let mut close_sockets = vec![]
  arrivals_age,    \* arrivals.elapsed(), in ms
  interval,        \* (interval * 1000.0).round(), in ms
  send_age,        \* send_timer.elapsed(), in ms
  \* history of the client, read by the properties only
  last_index,      \* index given to get_local_addr_port by the last arrival, or -1
  sent,            \* number of sends in the last pass over the set
  since_send,      \* ms since the last send of any socket, or -1 before the first
  send_gaps,       \* ms between each send of the last pass and the send before it
  exam_ages,       \* handle -> the elapsed ms the last pass read when it closed
                   \* the connection for its lifetime
  \* one call of get_local_addr_port of worker/network.rs
  f_in,            \* the arguments and the build: addr, conns_per_addr, index, checks
  f_out,           \* what the call gave, or NotCalled
  \* Endpoints worker, EndpointWorker::run_payload of worker/endpoints.rs
  e_cfg,           \* restart_interval (s) and the port slice lower..upper-1
  e_pc,            \* "run", "join", "returned": where the payload loop is
  e_threads,       \* the listen threads of this run, in port order: st, wake
  e_join,          \* number of threads the join loop has joined
  e_now,           \* seconds since this run of the payload began
  e_open,          \* ports on which this process holds a bound listener
  \* network server, NetworkWorker::start_server of worker/network.rs
  s_pc,            \* "bind", "accept", "panicked": the server thread
  s_conns,         \* per accepted connection, its handler thread: pc, last
                   \* result, replies sent, read errors met
  \* Processes worker, ProcessesWorker::run_payload of worker/processes.rs
  p_cfg,           \* random_process
  p_pc,            \* "spawn", "sleep": the arrival loop
  p_procs,         \* per helper thread spawned: "starting", "live", "done", "failed"
  \* BPF worker, BpfWorker::run_payload of worker/bpf.rs
  b_cfg,           \* nprogs
  b_pc,            \* "start", "load", "perf", "link", "park"
  b_i,             \* the loop variable of for i in 0..nprogs
  b_log,           \* the syscalls made so far, in order: call, i, ok
  b_parks,         \* number of times thread::park() was called
  \* the wait that ends an iteration of the network client's loop
  w_pc,            \* "iter", "wait", "panicked"
  w_poll,          \* what iface.poll_delay gave: NoDelay or a number of ms
  w_timeout,       \* the timeout handed to phy_wait: NoDelay or a number of ms
  w_waited,        \* ms spent in phy_wait so far
  \* the worker children, from the Fork::Child arm of run() on
  k_pc,            \* per slot: "start", "loop", "panicked"
  k_runs,          \* per slot: number of times run_payload has returned Ok
  k_extra          \* number of processes forked by a child

supVars == <<config, online, pc, slot, lower, upper, made, handles, child, now,
             wpc, wake, wi, rpc, ri, forked, draws, killLog, waitLog, waitErr,
             sigAt, overslept, scopeAt>>

netVars == <<ncfg, npc, sockets, dynamic_sockets, total_conns, close_sockets,
             arrivals_age, interval, send_age, last_index, sent, since_send,
             send_gaps, exam_ages>>

fnVars == <<f_in, f_out>>

endVars == <<e_cfg, e_pc, e_threads, e_join, e_now, e_open>>

srvVars == <<s_pc, s_conns>>

procVars == <<p_cfg, p_pc, p_procs>>

bpfVars == <<b_cfg, b_pc, b_i, b_log, b_parks>>

waitVars == <<w_pc, w_poll, w_timeout, w_waited>>

childVars == <<k_pc, k_runs, k_extra>>

auxVars == <<fnVars, endVars, srvVars, procVars, bpfVars, waitVars, childVars>>

vars == <<supVars, netVars, auxVars>>

\* ------------------------------------------------------------ helpers
NotCalled == [st |-> "not called"]

Min(a, b) == IF a < b THEN a ELSE b

Range(s) == {s[i] : i \in 1..Len(s)}

\* .iter().flatten() over a Vec<Option<_>>: the present entries, in order
Flatten(h) == SelectSeq(h, LAMBDA x : x # None)

\* ------------------------------------------------------------ fan-out
\* mutant of CoreIds: every online core is used whatever per_core says
CoreIdsAll(per_core, n) == [i \in 1..n |-> i - 1]

\* let core_ids = if per_core { get_core_ids() } else { vec![CoreId{id: 0}] }
CoreIds(per_core, n) == IF per_core THEN [i \in 1..n |-> i - 1] ELSE <<0>>

\* iproduct!(core_ids, 0..workers): core-major, worker index minor
Slots(cores, workers) ==
  [k \in 1..(Len(cores) * workers) |->
     [cpu |-> cores[((k - 1) \div workers) + 1], process |-> (k - 1) % workers]]

TheSlots == Slots(CoreIds(config.per_core, online), config.workers)

\* mutant of AllocPorts: the lower bound is not moved up to the cursor
AllocPortsStale(lo, up, n) == [lower |-> lo, upper |-> up + n]

\* mutant of AllocPorts: an empty draw still takes one port
AllocPortsAtLeastOne(lo, up, n) ==
  [lower |-> up, upper |-> up + (IF n = 0 THEN 1 ELSE n)]

\* *lower_bound = *upper_bound; *upper_bound += n_ports
AllocPorts(lo, up, n) == [lower |-> up, upper |-> up + n]

\* mutant of WorkerNew: the slice is drawn on a copy of the cursor (as in a
\* child after the fork), the supervisor's lower and upper stay where they were
WorkerNewOnCopy(cfg, cpu, process, lo, up, n) ==
  [worker |-> [kind |-> IF cfg.workload = "Endpoints" THEN "Endpoint" ELSE cfg.workload,
               cpu |-> cpu, process |-> process,
               lower |-> IF cfg.workload = "Endpoints" THEN up ELSE 0,
               upper |-> IF cfg.workload = "Endpoints" THEN up + n ELSE 0],
   lower |-> lo, upper |-> up]

\* Worker::new: only an Endpoints worker draws n ports and moves the cursor
WorkerNew(cfg, cpu, process, lo, up, n) ==
  IF cfg.workload = "Endpoints"
    THEN LET a == AllocPorts(lo, up, n)
         IN [worker |-> [kind |-> "Endpoint", cpu |-> cpu, process |-> process,
                         lower |-> a.lower, upper |-> a.upper],
             lower |-> a.lower, upper |-> a.upper]
    ELSE [worker |-> [kind |-> cfg.workload, cpu |-> cpu, process |-> process,
                      lower |-> 0, upper |-> 0],
          lower |-> lo, upper |-> up]

\* the draws Worker::new can make for this workload
Draws(cfg) == IF cfg.workload = "Endpoints" THEN 0..MaxDraw ELSE {0}

\* mutant of RecordFork: a failed fork leaves no entry
RecordForkSkip(h, entry) == IF entry = None THEN h ELSE Append(h, entry)

\* .map(|..| match fork() { Parent(child) => Some(child), Err => None }).collect()
RecordFork(h, entry) == Append(h, entry)

\* the child side of fork(): pin if per_core, then loop { run_payload() }
ChildOf(cfg, w) ==
  [st |-> "running", worker |-> w, pinned |-> IF cfg.per_core THEN w.cpu ELSE -1]

NoChild == [st |-> "none", worker |-> None, pinned |-> -1]

\* mutant of NextSlot: a fork that failed ends the fan-out
NextSlotStop(k, ok, n) == IF ok THEN k + 1 ELSE n + 1

\* .map(..) goes on to the next element whatever fork() returned
NextSlot(k, ok, n) == k + 1

\* one element of the fan-out: Worker::new, then fork
FanOutStep(n, ok) ==
  /\ pc = "fanout"
  /\ slot <= Len(TheSlots)
  /\ LET s == TheSlots[slot]
         r == WorkerNew(config, s.cpu, s.process, lower, upper, n)
         pid == slot
     IN /\ lower' = r.lower
        /\ upper' = r.upper
        /\ made' = Append(made, r.worker)
        /\ handles' = RecordFork(handles, IF ok THEN pid ELSE None)
        /\ child' = Append(child, IF ok THEN ChildOf(config, r.worker) ELSE NoChild)
        /\ forked' = IF ok THEN Append(forked, pid) ELSE forked
        /\ sigAt' = Append(sigAt, -1)
        /\ draws' = IF config.workload = "Endpoints" THEN Append(draws, n) ELSE draws
  /\ slot' = NextSlot(slot, ok, Len(TheSlots))
  /\ UNCHANGED <<auxVars, netVars, config, online, pc, now, wpc, wake, wi, rpc, ri, killLog,
                 waitLog, waitErr, overslept, scopeAt>>

\* mutant of WatchdogSpawned: the watcher thread is spawned whatever the budget
WatchdogSpawnedAlways(duration) == TRUE

\* if config.duration != 0 { s.spawn(..) }
WatchdogSpawned(duration) == duration # 0

\* collect() is over; thread::scope spawns the watchdog (duration != 0) and
\* the reaper
StartScope ==
  /\ pc = "fanout"
  /\ slot > Len(TheSlots)
  /\ pc' = "scope"
  /\ wpc' = IF WatchdogSpawned(config.duration) THEN "sleep" ELSE "off"
  /\ wake' = IF WatchdogSpawned(config.duration)
               THEN now + SleepSecs * TicksPerSec ELSE wake
  /\ wi' = 1
  /\ rpc' = "wait"
  /\ ri' = 1
  /\ scopeAt' = now
  /\ UNCHANGED <<auxVars, netVars, config, online, slot, lower, upper, made, handles, child, now,
                 forked, draws, killLog, waitLog, waitErr, sigAt, overslept>>

\* ------------------------------------------------------------ time
\* Time passes while the fan-out runs (at most MaxStart ticks) and while the
\* watchdog sleeps (a sleep lasts at most MaxJitter ticks longer than asked).
Tick ==
  /\ \/ pc = "fanout" /\ now < MaxStart
     \/ wpc = "sleep" /\ now < wake + MaxJitter
  /\ now' = now + 1
  /\ UNCHANGED <<auxVars, netVars, config, online, pc, slot, lower, upper, made, handles, child,
                 wpc, wake, wi, rpc, ri, forked, draws, killLog, waitLog, waitErr, sigAt,
                 overslept, scopeAt>>

\* ------------------------------------------------------------ watchdog
\* duration_timer.elapsed().unwrap().as_secs(): whole seconds
ElapsedSecs(t) == t \div TicksPerSec

\* mutant of Expired: the budget counts as spent once elapsed reaches it
ExpiredAtBudget(elapsed, duration) == elapsed >= duration

\* if elapsed > config.duration
Expired(elapsed, duration) == elapsed > duration

\* thread::sleep(1 s) returns; check the budget
WatchdogWake ==
  /\ wpc = "sleep"
  /\ now >= wake
  /\ overslept' = (overslept \/ now > wake)
  /\ IF Expired(ElapsedSecs(now), config.duration)
       THEN /\ wpc' = "kill"
            /\ wake' = wake
       ELSE /\ wpc' = "sleep"
            /\ wake' = now + SleepSecs * TicksPerSec
  /\ UNCHANGED <<auxVars, netVars, config, online, pc, slot, lower, upper, made, handles, child,
                 now, wi, rpc, ri, forked, draws, killLog, waitLog, waitErr, sigAt, scopeAt>>

\* kill(pid, SIGTERM): ESRCH once the child has been reaped, Ok otherwise
KillResult(st) == IF st = "reaped" THEN "Err" ELSE "Ok"

\* mutant of AfterKill: a failed kill ends the loop
AfterKillStop(i, res, n) == IF res = "Err" THEN n + 1 ELSE i + 1

\* Ok(()) => continue, Err(_) => continue
AfterKill(i, res, n) == i + 1

\* one round of `for handle in processes.iter().flatten()` in the watchdog
WatchdogKill ==
  /\ wpc = "kill"
  /\ wi <= Len(Flatten(handles))
  /\ LET pid == Flatten(handles)[wi]
         st == child[pid].st
         res == KillResult(st)
     IN /\ killLog' = Append(killLog, [pid |-> pid, res |-> res, st |-> st])
        /\ sigAt' = IF st = "running" /\ sigAt[pid] = -1
                      THEN [sigAt EXCEPT ![pid] = now] ELSE sigAt
        /\ wi' = AfterKill(wi, res, Len(Flatten(handles)))
  /\ UNCHANGED <<auxVars, netVars, config, online, pc, slot, lower, upper, made, handles, child,
                 now, wpc, wake, rpc, ri, forked, draws, waitLog, waitErr, overslept, scopeAt>>

\* the loop over the children is over: break
WatchdogDone ==
  /\ wpc = "kill"
  /\ wi > Len(Flatten(handles))
  /\ wpc' = "done"
  /\ UNCHANGED <<auxVars, netVars, config, online, pc, slot, lower, upper, made, handles, child,
                 now, wake, wi, rpc, ri, forked, draws, killLog, waitLog, waitErr, sigAt,
                 overslept, scopeAt>>

\* ------------------------------------------------------------ children
\* A worker child ends: by the default action of a SIGTERM it was sent, or for
\* a reason of its own (a panic in its payload, a signal from outside).
ChildExit(p) ==
  /\ p \in 1..Len(child)
  /\ child[p].st = "running"
  /\ child' = [child EXCEPT ![p].st = "exited"]
  /\ UNCHANGED <<auxVars, netVars, config, online, pc, slot, lower, upper, made, handles, now,
                 wpc, wake, wi, rpc, ri, forked, draws, killLog, waitLog, waitErr, sigAt,
                 overslept, scopeAt>>

\* ------------------------------------------------------------ reaper
\* mutant of ReaperTargets: the last recorded child is left out
ReaperTargetsShort(h) == SubSeq(Flatten(h), 1, Len(Flatten(h)) - 1)

\* for handle in processes.iter().flatten()
ReaperTargets(h) == Flatten(h)

\* waitpid(pid, None) returns once the child has ended
ReaperWait ==
  /\ rpc = "wait"
  /\ ri <= Len(ReaperTargets(handles))
  /\ LET pid == ReaperTargets(handles)[ri]
     IN /\ child[pid].st = "exited"
        /\ child' = [child EXCEPT ![pid].st = "reaped"]
        /\ waitLog' = Append(waitLog, pid)
  /\ ri' = ri + 1
  /\ UNCHANGED <<auxVars, netVars, config, online, pc, slot, lower, upper, made, handles, now,
                 wpc, wake, wi, rpc, forked, draws, killLog, waitErr, sigAt, overslept,
                 scopeAt>>

\* the errors waitpid(pid, None) can return
WaitErrors == {"ECHILD", "EINTR"}

\* waitpid(..).unwrap(): whatever the error, the reaper thread panics
AfterWaitErr(err) == "panicked"

\* waitpid(pid, None) fails. ECHILD: the child has ended and the kernel has
\* already discarded it (the supervisor inherited SIGCHLD set to ignore), so
\* there is no such child to wait for. EINTR: the call was interrupted.
ReaperWaitFail(err) ==
  /\ rpc = "wait"
  /\ ri <= Len(ReaperTargets(handles))
  /\ err \in WaitErrors
  /\ LET pid == ReaperTargets(handles)[ri]
     IN /\ err = "ECHILD" => child[pid].st = "exited"
        /\ err = "EINTR" => child[pid].st \in {"running", "exited"}
        /\ child' = IF err = "ECHILD" THEN [child EXCEPT ![pid].st = "reaped"]
                    ELSE child
  /\ waitErr' = err
  /\ rpc' = AfterWaitErr(err)
  /\ ri' = IF AfterWaitErr(err) = "wait" THEN ri + 1 ELSE ri
  /\ UNCHANGED <<auxVars, netVars, config, online, pc, slot, lower, upper, made, handles,
                 now, wpc, wake, wi, forked, draws, killLog, waitLog, sigAt, overslept,
                 scopeAt>>

ReaperDone ==
  /\ rpc = "wait"
  /\ ri > Len(ReaperTargets(handles))
  /\ rpc' = "done"
  /\ UNCHANGED <<auxVars, netVars, config, online, pc, slot, lower, upper, made, handles, child,
                 now, wpc, wake, wi, ri, forked, draws, killLog, waitLog, waitErr, sigAt,
                 overslept, scopeAt>>

\* mutant of WatcherJoined: the scope does not wait for the watcher thread
WatcherDetached(w) == TRUE

\* the scope joins the watcher thread when one was spawned in it
WatcherJoined(w) == w \in {"off", "done"}

\* thread::scope returns when both threads have finished; run() returns
ScopeJoin ==
  /\ pc = "scope"
  /\ WatcherJoined(wpc)
  /\ rpc = "done"
  /\ pc' = "done"
  /\ UNCHANGED <<auxVars, netVars, config, online, slot, lower, upper, made, handles, child, now,
                 wpc, wake, wi, rpc, ri, forked, draws, killLog, waitLog, waitErr, sigAt,
                 overslept, scopeAt>>

\* thread::scope joins both threads and then panics itself when one of them
\* has panicked: run() does not return
ScopePanic ==
  /\ pc = "scope"
  /\ wpc \in {"off", "done"}
  /\ rpc = "panicked"
  /\ pc' = "panicked"
  /\ UNCHANGED <<auxVars, netVars, config, online, slot, lower, upper, made, handles, child,
                 now, wpc, wake, wi, rpc, ri, forked, draws, killLog, waitLog, waitErr,
                 sigAt, overslept, scopeAt>>

\* ------------------------------------------------------------ network client
NoSocket == [kind |-> "free", index |-> -1]

\* room for every socket the client can hold at once: the static ones, the
\* dynamic ones, and the one added while a preempted one awaits removal
Handles == 0..(MaxStatic + MaxDyn)

Occupied(socks) == {h \in Handles : socks[h] # NoSocket}

\* the occupied handles in the order SocketSet::iter() yields them
RECURSIVE InOrder(_)
InOrder(S) ==
  IF S = {} THEN <<>>
  ELSE LET m == CHOOSE x \in S : \A y \in S : x <= y
       IN <<m>> \o InOrder(S \ {m})

\* addr.to_bits() + k, octet by octet from the last one; the first octet of
\* the result keeps the carry out of 32 bits
AddrSum(a, k) ==
  LET s4 == a[4] + k
      s3 == a[3] + (s4 \div 256)
      s2 == a[2] + (s3 \div 256)
      s1 == a[1] + (s2 \div 256)
  IN <<s1, s2 % 256, s3 % 256, s4 % 256>>

\* Ipv4Address::from_bits(addr.to_bits() + k): the octets of a 32-bit sum
AddrAdd(a, k) == [AddrSum(a, k) EXCEPT ![1] = AddrSum(a, k)[1] % 256]

\* the u32 sum addr.to_bits() + k does not fit 32 bits
AddrOverflows(a, k) == AddrSum(a, k)[1] >= 256

\* the u16 sum 49152 + (index % conns_per_addr) as u16 does not fit 16 bits
PortOverflows(conns_per_addr, index) ==
  BasePort + (index % conns_per_addr) >= 65536

Panic == [st |-> "panic"]

\* get_local_addr_port: port 49152 + index % conns_per_addr in 16 bits, address
\* base + index / conns_per_addr + 1 in 32 bits. Both sums are plain `+`: in a
\* build with overflow checks (checks) a sum that does not fit panics, in a
\* build without them it wraps.
get_local_addr_port(addr, conns_per_addr, index, checks) ==
  IF checks /\ (\/ PortOverflows(conns_per_addr, index)
                \/ AddrOverflows(addr, (index \div conns_per_addr) + 1))
    THEN Panic
    ELSE [st |-> "ok",
          port |-> (BasePort + (index % conns_per_addr)) % 65536,
          addr |-> AddrAdd(addr, (index \div conns_per_addr) + 1)]

\* the local endpoint of a socket of the client; no sum overflows for the
\* addresses and the indices of the client's configurations, so the build
\* makes no difference here
LocalOf(h) ==
  get_local_addr_port(ncfg.address, ncfg.conns_per_addr, sockets[h].index, TRUE)

\* one call of get_local_addr_port returns or panics
CallLocalAddrPort ==
  /\ f_out = NotCalled
  /\ f_out' = get_local_addr_port(f_in.addr, f_in.conns_per_addr, f_in.index,
                                  f_in.checks)
  /\ UNCHANGED <<f_in, supVars, netVars, endVars, srvVars, procVars, bpfVars, waitVars, childVars>>

\* a timer read after d more ms, kept no larger than what a comparison
\* against `limit` can tell apart
Aged(age, d, limit) == Min(age + d, limit + 1)

AgedMap(dyn, d) ==
  [h \in DOMAIN dyn |-> [dyn[h] EXCEPT !.age = Aged(dyn[h].age, d, dyn[h].life)]]

\* setup_tuntap, the static sockets and their connect, the timers and
\* total_conns: start_client up to its main loop
Setup(iv) ==
  /\ npc = "setup"
  /\ sockets' = [h \in Handles |->
                   IF h < ncfg.connections_static
                     THEN [kind |-> "static", index |-> h] ELSE NoSocket]
  /\ dynamic_sockets' = <<>>
  /\ total_conns' = ncfg.connections_static
  /\ close_sockets' = <<>>
  /\ arrivals_age' = 0
  /\ interval' = iv
  /\ send_age' = 0
  /\ last_index' = -1
  /\ sent' = 0
  /\ since_send' = -1
  /\ send_gaps' = {}
  /\ exam_ages' = <<>>
  /\ npc' = "arrival"
  /\ UNCHANGED <<ncfg, supVars, auxVars>>

\* if dynamic_sockets.len() == connections_dyn_max && preempt
Preempts(dyn, cfg) ==
  Cardinality(DOMAIN dyn) = cfg.connections_dyn_max /\ cfg.preempt

\* sockets.iter().nth(idx).unwrap(): the idx-th socket of the whole set
Victim(socks, idx) == InOrder(Occupied(socks))[idx + 1]

\* mutant of HasRoom: the new socket is added whatever the size of the map
HasRoomAlways(dyn, cfg) == TRUE

\* if dynamic_sockets.len() < connections_dyn_max
HasRoom(dyn, cfg) == Cardinality(DOMAIN dyn) < cfg.connections_dyn_max

\* mutant of FirstFree: the lowest slot, free or not
FirstSlot(socks) == CHOOSE h \in Handles : \A g \in Handles : h <= g

\* SocketSet::add: the first free slot
FirstFree(socks) == CHOOSE h \in Handles \ Occupied(socks) :
                      \A g \in Handles \ Occupied(socks) : h <= g

Without(dyn, key) == [h \in DOMAIN dyn \ {key} |-> dyn[h]]

With(dyn, key, val) == [h \in DOMAIN dyn \cup {key} |-> IF h = key THEN val ELSE dyn[h]]

\* mutant of ArrivalsRestart: the time overdue is carried to the next interval
ArrivalsCarry(age, iv) == age - iv

\* arrivals = SystemTime::now(): the arrival timer starts from zero
ArrivalsRestart(age, iv) == 0

\* The top of one loop iteration: close_sockets = vec![], iface.poll, and the
\* arrival of a new dynamic connection when the arrival interval has passed.
\* life and iv are the draws of the lifetime and of the next interval (ms),
\* idx the draw of gen_range(0..connections_dyn_max). The timers of one
\* iteration are all read at the same instant; time passes in the wait.
ArrivalStep(life, idx, iv) ==
  /\ npc = "arrival"
  /\ IF arrivals_age > interval
       THEN /\ total_conns < MaxTotal
            /\ IF Preempts(dynamic_sockets, ncfg) /\ ncfg.connections_dyn_max = 0
                 THEN \* gen_range over an empty range panics
                      /\ npc' = "panicked"
                      /\ total_conns' = total_conns + 1
                      /\ last_index' = total_conns + 1
                      /\ close_sockets' = <<>>
                      /\ UNCHANGED <<sockets, dynamic_sockets, arrivals_age,
                                     interval, send_age>>
                 ELSE LET pre == Preempts(dynamic_sockets, ncfg)
                          key == Victim(sockets, idx)
                          dyn1 == IF pre THEN Without(dynamic_sockets, key)
                                  ELSE dynamic_sockets
                          room == HasRoom(dyn1, ncfg)
                          handle == FirstFree(sockets)
                          dyn2 == IF room
                                    THEN With(dyn1, handle, [age |-> 0, life |-> life])
                                    ELSE dyn1
                      IN /\ idx < ncfg.connections_dyn_max
                         /\ (~pre => idx = 0)
                         /\ (~room => life = 0)
                         /\ total_conns' = total_conns + 1
                         /\ last_index' = total_conns + 1
                         /\ close_sockets' = IF pre THEN <<key>> ELSE <<>>
                         /\ sockets' = IF room
                               THEN [sockets EXCEPT ![handle] =
                                       [kind |-> "dynamic", index |-> total_conns + 1]]
                               ELSE sockets
                         /\ dynamic_sockets' = dyn2
                         /\ interval' = iv
                         /\ arrivals_age' = ArrivalsRestart(arrivals_age, interval)
                         /\ send_age' = send_age
                         /\ npc' = "process"
       ELSE /\ life = 0 /\ idx = 0 /\ iv = 0
            /\ close_sockets' = <<>>
            /\ npc' = "process"
            /\ UNCHANGED <<sockets, dynamic_sockets, total_conns, arrivals_age,
                           interval, send_age, last_index>>
  /\ sent' = 0
  /\ send_gaps' = {}
  /\ exam_ages' = <<>>
  /\ UNCHANGED <<ncfg, since_send, supVars, auxVars>>

\* mutant of Expires: a connection is closed once its lifetime is reached
ExpiresAtLifetime(rec) == rec.age >= rec.life

\* timer.elapsed().as_millis() > (life * 1000.0).round()
Expires(rec) == rec.age > rec.life

\* mutant of SendDue: a send is due as soon as the interval is reached
SendDueAtInterval(age, send_interval) == age >= send_interval

\* if elapsed > send_interval
SendDue(age, send_interval) == age > send_interval

\* One socket of the pass, st being the state of the pass so far (st.passed:
\* ms gone since the pass began). A dynamic socket past its lifetime is
\* closed, taken out of the map and queued (continue); another socket, when it
\* may send and the global send timer allows it, resets the timer and sends.
\* A send takes lag ms.
Visit(h, st, may_send, lag, send_interval) ==
  IF h \in DOMAIN st.dyn
       /\ Expires([st.dyn[h] EXCEPT !.age = st.dyn[h].age + st.passed])
    THEN [st EXCEPT !.dyn = Without(st.dyn, h), !.close = Append(st.close, h),
                    !.exam = With(st.exam, h, [age |-> st.dyn[h].age + st.passed,
                                               life |-> st.dyn[h].life])]
    ELSE IF h \in may_send /\ SendDue(st.send_age, send_interval)
      THEN [st EXCEPT !.send_age = Aged(0, lag, send_interval),
                      !.since = Aged(0, lag, send_interval),
                      !.gaps = IF st.since = -1 THEN st.gaps
                               ELSE st.gaps \cup {st.since},
                      !.sent = st.sent + 1,
                      !.passed = st.passed + lag]
      ELSE st

\* for (i, (h, s)) in sockets.iter_mut().enumerate()
RECURSIVE Pass(_, _, _, _, _)
Pass(hs, st, may_send, lag, send_interval) ==
  IF hs = <<>> THEN st
  ELSE Pass(Tail(hs), Visit(Head(hs), st, may_send, lag, send_interval),
            may_send, lag, send_interval)

\* The pass over the socket set. may_send is the set of sockets whose TCP state
\* lets them send, lag the time one send takes.
ProcessStep(may_send, lag) ==
  /\ npc = "process"
  /\ may_send \subseteq Occupied(sockets)
  /\ (~SendDue(send_age, ncfg.send_interval) => may_send = {})
  /\ \E st \in {Pass(InOrder(Occupied(sockets)),
                      [dyn |-> dynamic_sockets, close |-> close_sockets,
                       send_age |-> send_age, since |-> since_send, gaps |-> {},
                       sent |-> 0, passed |-> 0, exam |-> <<>>],
                      may_send, lag, ncfg.send_interval)} :
       /\ (st.sent = 0 => lag = 0)
       /\ dynamic_sockets' = AgedMap(st.dyn, st.passed)
       /\ close_sockets' = st.close
       /\ send_age' = st.send_age
       /\ since_send' = st.since
       /\ send_gaps' = st.gaps
       /\ exam_ages' = st.exam
       /\ sent' = st.sent
       /\ arrivals_age' = Aged(arrivals_age, st.passed, interval)
  /\ npc' = "close"
  /\ UNCHANGED <<ncfg, sockets, total_conns, interval, last_index, supVars, auxVars>>

\* mutant of run_payload: the error of start_client is handed on
run_payload_propagates(res) == res

\* NetworkWorker::run_payload: let _ = self.start_client(..); Ok(())
run_payload(res) == "Ok"

\* loop { worker.run_payload().unwrap(); }: the payload is run again after Ok,
\* the worker process panics on Err
LoopAfter(res) == IF res = "Ok" THEN "setup" ELSE "panicked"

\* tcp::Socket::downcast_mut(s).ok_or(WorkerError::Internal)? fails in the
\* pass: start_client returns the error. The locals of the run that failed
\* (interface, device, socket set, map, counters, timers) go with it; the
\* variables keep their last values until Setup gives them those of a new run.
InternalError ==
  /\ npc = "process"
  /\ Occupied(sockets) # {}
  /\ npc' = LoopAfter(run_payload("Internal"))
  /\ UNCHANGED <<ncfg, sockets, dynamic_sockets, total_conns, close_sockets,
                 arrivals_age, interval, send_age, last_index, sent, since_send,
                 send_gaps, exam_ages, supVars, auxVars>>

\* mutant of RemoveAll: only the first queued handle is removed
RemoveHead(socks, hs) ==
  IF hs = <<>> THEN socks ELSE [socks EXCEPT ![Head(hs)] = NoSocket]

\* for h in close_sockets { sockets.remove(h); total_conns -= 1 }
RECURSIVE RemoveAll(_, _)
RemoveAll(socks, hs) ==
  IF hs = <<>> THEN socks
  ELSE RemoveAll([socks EXCEPT ![Head(hs)] = NoSocket], Tail(hs))

CloseStep ==
  /\ npc = "close"
  /\ sockets' = RemoveAll(sockets, close_sockets)
  /\ total_conns' = total_conns - Len(close_sockets)
  /\ npc' = "wait"
  /\ UNCHANGED <<ncfg, dynamic_sockets, close_sockets, arrivals_age, interval,
                 send_age, last_index, sent, since_send, send_gaps, exam_ages, supVars,
                 auxVars>>

\* phy_wait(fd, min(poll_delay, 100 ms)): d ms later the loop starts over
WaitStep(d) ==
  /\ npc = "wait"
  /\ dynamic_sockets' = AgedMap(dynamic_sockets, d)
  /\ arrivals_age' = Aged(arrivals_age, d, interval)
  /\ send_age' = Aged(send_age, d, ncfg.send_interval)
  /\ since_send' = IF since_send = -1 THEN -1
                   ELSE Aged(since_send, d, ncfg.send_interval)
  /\ npc' = "arrival"
  /\ UNCHANGED <<ncfg, sockets, total_conns, close_sockets, interval, last_index,
                 sent, send_gaps, exam_ages, supVars, auxVars>>

\* ------------------------------------------------------------ specifications
\* the part of the state a specification does not use stays as it is here
FnIdle ==
  /\ f_in = <<>>
  /\ f_out = NotCalled

EndIdle ==
  /\ e_cfg = <<>>
  /\ e_pc = "off"
  /\ e_threads = <<>>
  /\ e_join = 0
  /\ e_now = 0
  /\ e_open = {}

SrvIdle ==
  /\ s_pc = "off"
  /\ s_conns = <<>>

ProcIdle ==
  /\ p_cfg = <<>>
  /\ p_pc = "off"
  /\ p_procs = <<>>

BpfIdle ==
  /\ b_cfg = <<>>
  /\ b_pc = "off"
  /\ b_i = 0
  /\ b_log = <<>>
  /\ b_parks = 0

\* no wait has begun
NoDelay == <<>>

WaitIdle ==
  /\ w_pc = "off"
  /\ w_poll = NoDelay
  /\ w_timeout = NoDelay
  /\ w_waited = 0

\* no child has made a step of its own
ChildIdle ==
  /\ k_pc = [p \in 1..MaxSlots |-> "start"]
  /\ k_runs = [p \in 1..MaxSlots |-> 0]
  /\ k_extra = 0

AuxIdle ==
  /\ FnIdle
  /\ EndIdle
  /\ SrvIdle
  /\ ProcIdle
  /\ BpfIdle
  /\ WaitIdle
  /\ ChildIdle

NetIdle ==
  /\ ncfg = <<>>
  /\ npc = "off"
  /\ sockets = <<>>
  /\ dynamic_sockets = <<>>
  /\ total_conns = 0
  /\ close_sockets = <<>>
  /\ arrivals_age = 0
  /\ interval = 0
  /\ send_age = 0
  /\ last_index = -1
  /\ sent = 0
  /\ since_send = -1
  /\ send_gaps = {}
  /\ exam_ages = <<>>

SupIdle ==
  /\ config = <<>>
  /\ online = 0
  /\ pc = "off"
  /\ slot = 0
  /\ lower = 0
  /\ upper = 0
  /\ made = <<>>
  /\ handles = <<>>
  /\ child = <<>>
  /\ now = 0
  /\ wpc = "off"
  /\ wake = 0
  /\ wi = 0
  /\ rpc = "off"
  /\ ri = 0
  /\ forked = <<>>
  /\ draws = <<>>
  /\ killLog = <<>>
  /\ waitLog = <<>>
  /\ waitErr = "none"
  /\ sigAt = <<>>
  /\ overslept = FALSE
  /\ scopeAt = -1

Configs(workloads) ==
  {c \in [per_core : BOOLEAN, workers : 1..MaxWorkers, duration : 0..MaxDuration,
          workload : workloads] : TRUE}

InitSup(workloads) ==
  /\ config \in Configs(workloads)
  /\ online \in 1..MaxCores
  /\ Len(CoreIds(config.per_core, online)) * config.workers <= MaxSlots
  /\ pc = "fanout"
  /\ slot = 1
  /\ lower = FirstPort
  /\ upper = FirstPort
  /\ made = <<>>
  /\ handles = <<>>
  /\ child = <<>>
  /\ now = 0
  /\ wpc = "off"
  /\ wake = 0
  /\ wi = 1
  /\ rpc = "off"
  /\ ri = 1
  /\ forked = <<>>
  /\ draws = <<>>
  /\ killLog = <<>>
  /\ waitLog = <<>>
  /\ waitErr = "none"
  /\ sigAt = <<>>
  /\ overslept = FALSE
  /\ scopeAt = -1
  /\ NetIdle
  /\ AuxIdle

FanOut == \E n \in Draws(config), ok \in BOOLEAN : FanOutStep(n, ok)

Exits == \E p \in 1..MaxSlots : ChildExit(p)

\* the supervisor of a workload that draws no ports: fan-out, watchdog, reaper
Init == InitSup({"Processes"})

Next ==
  \/ FanOut
  \/ StartScope
  \/ Tick
  \/ WatchdogWake
  \/ WatchdogKill
  \/ WatchdogDone
  \/ Exits
  \/ ReaperWait
  \/ ReaperDone
  \/ ScopeJoin

Spec == Init /\ [][Next]_vars

\* the same supervisor on a machine where a wait can fail
ReaperFail == \E err \in WaitErrors : ReaperWaitFail(err)

NextReap ==
  \/ Next
  \/ ReaperFail
  \/ ScopePanic

SpecReap == Init /\ [][NextReap]_vars

\* the fan-out alone, for every workload: the port cursor and the forks
InitFan == InitSup({"Endpoints", "Processes"}) /\ config.duration = 0

NextFan ==
  \/ FanOut
  \/ StartScope

SpecFan == InitFan /\ [][NextFan]_vars

\* the network client of one worker, from the start of start_client
Addresses == {<<10, 0, 255, 255>>}

ConnsPerAddr == {1, 2}

SendIntervals == {0, 1}

\* the draws of a lifetime and of an arrival interval, and the time one wait
\* takes, in ms
Lifetimes == {0, 1}

Intervals == {0, 1}

Waits == {0, 1}

\* the time one send takes, in ms
Lags == {0, 1}

NetConfigs ==
  [connections_static : 0..MaxStatic, connections_dyn_max : 0..MaxDyn,
   conns_per_addr : ConnsPerAddr, preempt : BOOLEAN, send_interval : SendIntervals,
   address : Addresses]

InitNet ==
  /\ ncfg \in NetConfigs
  /\ npc = "setup"
  /\ sockets = <<>>
  /\ dynamic_sockets = <<>>
  /\ total_conns = 0
  /\ close_sockets = <<>>
  /\ arrivals_age = 0
  /\ interval = 0
  /\ send_age = 0
  /\ last_index = -1
  /\ sent = 0
  /\ since_send = -1
  /\ send_gaps = {}
  /\ exam_ages = <<>>
  /\ SupIdle
  /\ AuxIdle

Arrival ==
  \E life \in Lifetimes, idx \in 0..MaxDyn, iv \in Intervals :
    ArrivalStep(life, idx, iv)

Process ==
  /\ npc = "process"
  /\ \E ms \in SUBSET Occupied(sockets), lag \in Lags : ProcessStep(ms, lag)

NextNet ==
  \/ \E iv \in Intervals : Setup(iv)
  \/ Arrival
  \/ Process
  \/ CloseStep
  \/ \E d \in Waits : WaitStep(d)

SpecNet == InitNet /\ [][NextNet]_vars

\* the same client when the pass over the socket set can fail
NextNetErr ==
  \/ NextNet
  \/ InternalError

SpecNetErr == InitNet /\ [][NextNetErr]_vars

\* get_local_addr_port alone, called once on arguments drawn from the cases of
\* test_get_local_addr_port, the ends of the address space and of the range of
\* conns_per_addr (u16), and the first indices
FnAddresses ==
  {<<192, 168, 1, 100>>, <<192, 168, 1, 255>>, <<192, 255, 255, 255>>,
   <<10, 0, 0, 1>>, <<255, 255, 255, 254>>, <<255, 255, 255, 255>>}

FnConns == {1, 9, 10, 12, 100, 16385, 65535}

FnIndices == (0..MaxIndex) \cup {15, 512, 16384, 65534, 65636}

InitAddr ==
  /\ f_in \in [addr : FnAddresses, conns_per_addr : FnConns, index : FnIndices,
               checks : BOOLEAN]
  /\ f_out = NotCalled
  /\ SupIdle
  /\ NetIdle
  /\ EndIdle
  /\ SrvIdle
  /\ ProcIdle
  /\ BpfIdle
  /\ WaitIdle
  /\ ChildIdle

NextAddr == CallLocalAddrPort

SpecAddr == InitAddr /\ [][NextAddr]_vars

\* the supervisor under the scheduling the code relies on: every thread that
\* can take a step eventually takes it, the clock advances, and a child that
\* was sent SIGTERM ends (no worker installs a handler)
Fairness ==
  /\ WF_vars(FanOut)
  /\ WF_vars(StartScope)
  /\ WF_vars(Tick)
  /\ WF_vars(WatchdogWake)
  /\ WF_vars(WatchdogKill)
  /\ WF_vars(WatchdogDone)
  /\ WF_vars(ReaperWait)
  /\ WF_vars(ReaperDone)
  /\ WF_vars(ScopeJoin)
  /\ \A p \in 1..MaxSlots : WF_vars(ChildExit(p) /\ sigAt[p] # -1)

FairSpec == Spec /\ Fairness

\* ------------------------------------------------------------ properties
RECURSIVE Sum(_)
Sum(s) == IF s = <<>> THEN 0 ELSE s[1] + Sum(Tail(s))

IsPrefix(s, t) == Len(s) <= Len(t) /\ s = SubSeq(t, 1, Len(s))

NoDuplicates(s) == \A i, j \in 1..Len(s) : i # j => s[i] # s[j]

\* the half-open port interval of a constructed worker
PortsOf(w) == {p \in 0..(FirstPort + MaxSlots * (MaxDraw + 1)) : w.lower <= p /\ p < w.upper}

SlicesFollowDraws ==
  config.workload = "Endpoints" =>
    /\ Len(made) = Len(draws)
    /\ \A j \in 1..Len(made) :
         /\ made[j].lower = FirstPort + Sum(SubSeq(draws, 1, j - 1))
         /\ made[j].upper = FirstPort + Sum(SubSeq(draws, 1, j))
    /\ \A i, j \in 1..Len(made) : i < j =>
         /\ PortsOf(made[i]) \cap PortsOf(made[j]) = {}
         /\ made[i].upper <= made[j].lower
    /\ upper = FirstPort + Sum(draws)

\* C1: for draws n_1, n_2, ... starting from a cursor of 1024, Endpoints worker
\* j receives the port slice [1024 + n_1 + ... + n_(j-1), 1024 + n_1 + ... + n_j);
\* the slices are pairwise disjoint, contiguous and in construction order, and
\* the cursor never decreases.
C1_Slices == [](SlicesFollowDraws) /\ [][upper' >= upper]_vars

\* C1 witness: two Endpoints workers were constructed, both with ports, the
\* second slice starting where the first one ends, above 1024
C1_Witness ==
  /\ config.workload = "Endpoints"
  /\ Len(made) >= 2
  /\ draws[1] > 0
  /\ draws[2] > 0
  /\ made[2].lower = made[1].upper
  /\ made[2].lower > FirstPort

\* the client is past its setup: the socket set and the map exist
Running == npc \in {"arrival", "process", "close", "wait", "panicked"}

\* the loop is at the top of an iteration
AtBoundary == npc = "arrival"

DynSize == Cardinality(DOMAIN dynamic_sockets)

\* C2: at every iteration boundary of the network client, with preemption on
\* or off, total_conns equals the number of static connections plus the number
\* of entries of the dynamic-sockets map.
C2_TotalIsStaticPlusDyn ==
  AtBoundary => total_conns = ncfg.connections_static + DynSize

\* C3: no two connections that are in the socket set at the same time have the
\* same local (address, port) pair; the index an arrival gives to
\* get_local_addr_port is never the index of another connection still live.
C3_DistinctLocal ==
  Running =>
    \A g, h \in Occupied(sockets) :
      g # h => /\ LocalOf(g) # LocalOf(h)
               /\ sockets[g].index # sockets[h].index

\* C4: with preemption enabled, the dynamic-sockets map never holds more than
\* connections_dyn_max entries.
C4_DynBound ==
  (Running /\ ncfg.preempt) => DynSize <= ncfg.connections_dyn_max

\* C4 witness: preemption is on, an arrival found the map full, queued a victim
\* and added its own socket: the map is at connections_dyn_max again
C4_Witness ==
  /\ npc = "process"
  /\ ncfg.preempt
  /\ ncfg.connections_dyn_max >= 1
  /\ DynSize = ncfg.connections_dyn_max
  /\ Len(close_sockets) = 1
  /\ \E h \in DOMAIN dynamic_sockets : sockets[h].index = last_index

\* C5: no socket of the initial static set is ever queued for close or taken
\* out of the socket set, whatever connections_static >= 1 and
\* connections_dyn_max are.
C5_StaticStay ==
  Running =>
    \A h \in 0..(ncfg.connections_static - 1) :
      /\ sockets[h].kind = "static"
      /\ h \notin Range(close_sockets)

SecTicks(s) == s * TicksPerSec

\* C6 as stated: with duration D > 0 (and every sleep of the watchdog lasting
\* exactly one second) a child still alive receives SIGTERM within 1 second of
\* the D-second mark, measured from the start of run().
C6_Within1s ==
  (config.duration > 0 /\ ~overslept) =>
    \A p \in 1..Len(sigAt) : sigAt[p] # -1 =>
      /\ sigAt[p] >= SecTicks(config.duration)
      /\ sigAt[p] <= SecTicks(config.duration + 1)

\* C6 amended: with duration D > 0, no child is sent SIGTERM before D + 1
\* seconds; when the watchdog starts before the (D+1)-second mark and every
\* sleep lasts exactly one second, every child still alive when the watchdog
\* fires is sent SIGTERM at a time t with D + 1 <= t < D + 2 seconds, that is
\* within 2 seconds (not 1) of the D-second mark.
C6_Within2s ==
  config.duration > 0 =>
    /\ \A p \in 1..Len(sigAt) : sigAt[p] # -1 =>
         /\ sigAt[p] >= SecTicks(config.duration + 1)
         /\ (~overslept /\ scopeAt < SecTicks(config.duration + 1))
              => sigAt[p] < SecTicks(config.duration + 2)
    /\ wpc = "done" =>
         \A p \in 1..Len(child) : child[p].st = "running" => sigAt[p] # -1

\* C6 witness: the watchdog slept exact seconds and a child got SIGTERM
\* strictly later than D + 1 seconds after the start of run()
C6_Witness ==
  /\ config.duration > 0
  /\ ~overslept
  /\ wpc = "done"
  /\ \E p \in 1..Len(sigAt) :
       /\ sigAt[p] > SecTicks(config.duration + 1)
       /\ sigAt[p] < SecTicks(config.duration + 2)

KilledPids == [i \in 1..Len(killLog) |-> killLog[i].pid]

\* C8: when the watchdog fires it attempts SIGTERM on every recorded child, in
\* list order; a failed kill on one child does not keep the remaining children
\* from being signalled, and every child that has not exited is signalled.
C8_KillAll ==
  /\ IsPrefix(KilledPids, forked)
  /\ wpc = "done" =>
       /\ KilledPids = forked
       /\ \A i \in 1..Len(killLog) :
            killLog[i].st = "running" => sigAt[killLog[i].pid] # -1

\* C8 witness: the watchdog is through; its kill on one child failed and a
\* later child in the list, still running, was signalled
C8_Witness ==
  /\ wpc = "done"
  /\ \E i, j \in 1..Len(killLog) :
       /\ i < j
       /\ killLog[i].res = "Err"
       /\ killLog[j].st = "running"
       /\ sigAt[killLog[j].pid] # -1

\* C9 as stated: after the fan-out, the length of the children list equals the
\* number of forks that succeeded.
C9_LenIsForks == pc # "fanout" => Len(handles) = Len(forked)

\* C9 amended: after the fan-out, the children list has one entry per slot of
\* C x {0..workers}, absent for a fork that failed; the number of its present
\* entries equals the number of forks that succeeded (they are the pids of
\* those forks, in fork order).
C9_PresentAreForks ==
  pc # "fanout" =>
    /\ Len(handles) = Len(TheSlots)
    /\ Flatten(handles) = forked
    /\ Len(Flatten(handles)) = Cardinality({p \in 1..Len(child) : child[p].st # "none"})

\* C9 witness: the fan-out is over with one fork failed and one succeeded
C9_Witness ==
  /\ pc # "fanout"
  /\ Len(forked) >= 1
  /\ Len(forked) < Len(handles)

\* C10: each successfully forked child is waited on at most once in the whole
\* run: the reaper, the only waiter, visits the recorded child identifiers once
\* each, in fork order.
C10_WaitOnce ==
  /\ NoDuplicates(waitLog)
  /\ IsPrefix(waitLog, forked)
  /\ rpc = "done" => waitLog = forked
  /\ \A p \in 1..Len(child) :
       child[p].st = "reaped" <=> p \in Range(waitLog)

\* C10 witness: the reaper is through, having waited on two children
C10_Witness ==
  /\ rpc = "done"
  /\ Len(waitLog) >= 2
  /\ waitLog = forked

\* C11: a "no such child" result of waiting on a recorded child does not stop
\* the reaper (it goes on with the remaining children); any other wait failure
\* is fatal to it.
C11_EchildTolerated ==
  /\ waitErr = "ECHILD" => rpc # "panicked"
  /\ waitErr = "EINTR" => rpc = "panicked"

\* C12: with duration = 0 the watchdog thread is never started and no child is
\* ever sent SIGTERM by the supervisor; run() returns only after every recorded
\* child has ended for a reason of its own and has been waited on.
C12_NoWatchdog ==
  config.duration = 0 =>
    /\ wpc = "off"
    /\ killLog = <<>>
    /\ \A p \in 1..Len(sigAt) : sigAt[p] = -1
    /\ pc = "done" =>
         /\ waitLog = forked
         /\ \A p \in 1..Len(child) : child[p].st \in {"none", "reaped"}

\* C12 witness: run() has returned from a run without budget in which two
\* children were forked; both ended by themselves and were waited on
C12_Witness ==
  /\ config.duration = 0
  /\ pc = "done"
  /\ wpc = "off"
  /\ Len(forked) = 2
  /\ waitLog = forked
  /\ killLog = <<>>

\* C13 as stated: with per_core = false, exactly `workers` children are created
\* and every one of them is bound (pinned) to core 0.
C13_WorkersOnCore0 ==
  (pc # "fanout" /\ ~config.per_core) =>
    /\ Len(forked) = config.workers
    /\ \A p \in 1..Len(child) : child[p].st # "none" => child[p].pinned = 0

\* C13 amended: with per_core = false the fan-out has exactly `workers` slots,
\* every one with core 0 in its worker descriptor; one child is created for
\* each slot whose fork succeeds (at most `workers`), and no child sets its
\* CPU affinity: the pin is under `if per_core`.
C13_SlotsOnCore0 ==
  (pc # "fanout" /\ ~config.per_core) =>
    /\ Len(handles) = config.workers
    /\ Len(TheSlots) = config.workers
    /\ Len(forked) <= config.workers
    /\ Len(forked) = Cardinality({p \in 1..Len(child) : child[p].st # "none"})
    /\ \A j \in 1..Len(made) : made[j].cpu = 0
    /\ \A p \in 1..Len(child) :
         child[p].st # "none" => /\ child[p].worker.cpu = 0
                                /\ child[p].pinned = -1

\* C13 witness: per_core is off on a machine with two cores; two workers were
\* asked for and both forks succeeded
C13_Witness ==
  /\ pc # "fanout"
  /\ ~config.per_core
  /\ online = 2
  /\ config.workers = 2
  /\ Len(forked) = 2
  /\ child[2].pinned = -1

\* C17: an Endpoints construction whose draw is 0 leaves the cursor where it
\* was and yields an empty slice that starts at the cursor; this holds for
\* every such construction, however many there are.
C17_ZeroDraw ==
  [][(/\ config.workload = "Endpoints"
      /\ Len(draws') = Len(draws) + 1
      /\ draws'[Len(draws')] = 0)
     => (/\ upper' = upper
         /\ made'[Len(made')].lower = upper
         /\ made'[Len(made')].upper = upper
         /\ PortsOf(made'[Len(made')]) = {})]_vars

\* C17 witness: after a draw that took ports, a draw of 0 left the cursor at
\* the end of the first slice and gave the empty slice there
C17_Witness ==
  /\ config.workload = "Endpoints"
  /\ Len(draws) = 2
  /\ draws[1] > 0
  /\ draws[2] = 0
  /\ upper = FirstPort + draws[1]
  /\ made[2].lower = upper
  /\ made[2].upper = upper

\* the supervisor's lower and upper are those of the last worker constructed
CursorIsLastSlice ==
  (config.workload = "Endpoints" /\ Len(made) > 0) =>
    /\ lower = made[Len(made)].lower
    /\ upper = made[Len(made)].upper

\* C18: for every slot of an Endpoints workload the port slice is drawn in the
\* parent exactly once, before that slot's fork: there is one draw per slot
\* constructed, the worker a child carries is the one the parent constructed
\* for its slot, the parent's bounds are those of the last slice drawn, and
\* lower and upper change only in a step of the parent's fan-out.
C18_DrawnBeforeFork ==
  /\ [](/\ Len(made) = Len(handles)
        /\ Len(child) = Len(handles)
        /\ config.workload = "Endpoints" => Len(draws) = Len(made)
        /\ pc # "fanout" => Len(made) = Len(TheSlots)
        /\ \A p \in 1..Len(child) :
             child[p].st # "none" => child[p].worker = made[p]
        /\ CursorIsLastSlice)
  /\ [][(upper' # upper \/ lower' # lower)
          => (pc = "fanout" /\ Len(made') = Len(made) + 1)]_vars

\* C18 witness: two Endpoints children were forked, each carrying the
\* non-empty slice drawn for its slot, the second one starting above 1024
C18_Witness ==
  /\ config.workload = "Endpoints"
  /\ pc # "fanout"
  /\ Len(forked) = 2
  /\ child[1].worker.lower = FirstPort
  /\ child[1].worker.upper > FirstPort
  /\ child[2].worker.lower = child[1].worker.upper
  /\ child[2].worker.upper > child[2].worker.lower
  /\ upper = child[2].worker.upper

\* C19: a fork failure for one slot is not fatal: the slot is recorded as
\* absent, the remaining slots are still forked, and the absent slot is never
\* signalled by the watchdog nor waited on by the reaper.
C19_ForkFailureSkipped ==
  /\ pc # "fanout" => Len(handles) = Len(TheSlots)
  /\ \A p \in 1..Len(handles) : handles[p] = None <=> child[p].st = "none"
  /\ \A i \in 1..Len(killLog) : handles[killLog[i].pid] # None
  /\ \A i \in 1..Len(waitLog) : handles[waitLog[i]] # None
  /\ \A p \in 1..Len(child) : child[p].st = "none" => sigAt[p] = -1
  /\ wpc = "done" => Len(killLog) = Len(forked)
  /\ rpc = "done" => Len(waitLog) = Len(forked)

\* C19 witness: the fork of the first slot failed and the second slot was
\* forked all the same; the watchdog signalled and the reaper waited on the
\* second child only
C19_Witness ==
  /\ Len(handles) = 2
  /\ handles[1] = None
  /\ handles[2] # None
  /\ wpc = "done"
  /\ rpc = "done"
  /\ KilledPids = <<2>>
  /\ waitLog = <<2>>

\* a 32-bit address as two 16-bit halves, and back
Halves(a) == <<a[1] * 256 + a[2], a[3] * 256 + a[4]>>

\* h + k on the halves; the high half of the result keeps the carry out of 32
\* bits
HalvesAdd(h, k) == <<h[1] + ((h[2] + k) \div 65536), (h[2] + k) % 65536>>

Octets(h) ==
  <<(h[1] % 65536) \div 256, h[1] % 256, h[2] \div 256, h[2] % 256>>

\* A + floor(i / C) + 1 for the arguments of the call, on the halves
WantedSum ==
  HalvesAdd(Halves(f_in.addr), (f_in.index \div f_in.conns_per_addr) + 1)

\* C14: for every base address A, grouping factor C >= 1 and index i,
\* get_local_addr_port(A, C, i) returns the port 49152 + (i mod C) and the
\* address A + floor(i / C) + 1, A taken as a big-endian 32-bit integer so
\* that carries go across octets.
C14_PortAndAddr ==
  f_out # NotCalled =>
    /\ f_out.st = "ok"
    /\ f_out.port = BasePort + (f_in.index % f_in.conns_per_addr)
    /\ f_out.addr = Octets(WantedSum)

\* C15: when A + addr_index + 1 exceeds 255.255.255.255 (and the port sum
\* fits), get_local_addr_port returns the address wrapped modulo 2^32; it does
\* not fail.
C15_AddrWraps ==
  (/\ f_out # NotCalled
   /\ WantedSum[1] >= 65536
   /\ ~PortOverflows(f_in.conns_per_addr, f_in.index)) =>
    /\ f_out.st = "ok"
    /\ f_out.addr = Octets(WantedSum)

\* C16: across the whole connection population of one client, any two
\* consecutive sends, by the same or by different sockets, in one iteration or
\* in different ones, are more than send_interval ms apart: at most one socket
\* sends per send_interval window.
C16_SendsApart ==
  /\ \A g \in send_gaps : g > ncfg.send_interval
  /\ sent >= 2 => Cardinality(send_gaps) >= 1

\* C16 witness: two sockets sent in the same pass over the set, the second
\* one after the first send had taken longer than send_interval
C16_Witness ==
  /\ npc = "close"
  /\ sent >= 2
  /\ send_gaps # {}
  /\ \A g \in send_gaps : g > ncfg.send_interval

\* the socket set start_client builds before its main loop
FreshSockets ==
  [h \in Handles |-> IF h < ncfg.connections_static
                       THEN [kind |-> "static", index |-> h] ELSE NoSocket]

\* C20: when the pass over the socket set hits an internal (downcast) error,
\* only the payload run is aborted: the worker process does not panic, the
\* outer loop calls run_payload again, and the new run starts from a socket
\* set, a dynamic map and a total_conns built from scratch.
C20_RestartFromScratch ==
  /\ [][(npc = "process" /\ npc' # "close") => npc' = "setup"]_vars
  /\ [][npc = "setup" => (/\ npc' = "arrival"
                          /\ sockets' = FreshSockets
                          /\ dynamic_sockets' = <<>>
                          /\ total_conns' = ncfg.connections_static
                          /\ close_sockets' = <<>>)]_vars

\* C20 witness: a run that held dynamic connections was aborted by an internal
\* error; the process is alive and about to run its payload again
C20_Witness ==
  /\ npc = "setup"
  /\ DynSize >= 1
  /\ total_conns > ncfg.connections_static
  /\ ncfg.connections_static >= 1

\* the loop is at the top of an iteration in which an arrival is due
ArrivalDue == npc = "arrival" /\ arrivals_age > interval

\* C23: with preemption enabled (and connections_dyn_max >= 1) every arrival
\* is admitted: at the end of the arrival step the new connection's handle is
\* in the socket set and in the dynamic map, and when the arrival found the
\* map at capacity exactly one dynamic connection was evicted and the map is
\* at connections_dyn_max again.
C23_EveryArrivalAdmitted ==
  [][(ArrivalDue /\ ncfg.preempt /\ ncfg.connections_dyn_max >= 1)
     => (/\ \E h \in Occupied(sockets') \ Occupied(sockets) :
              /\ h \in DOMAIN dynamic_sockets'
              /\ sockets'[h].index = last_index'
         /\ DynSize = ncfg.connections_dyn_max
              => (/\ Len(close_sockets') = 1
                  /\ close_sockets'[1] \in DOMAIN dynamic_sockets
                  /\ Cardinality(DOMAIN dynamic_sockets')
                       = ncfg.connections_dyn_max))]_vars

C25_CloseSameIteration ==
  /\ []((npc \in {"process", "close", "wait"}) =>
          /\ NoDuplicates(close_sockets)
          /\ \A h \in Range(close_sockets) : h \notin DOMAIN dynamic_sockets)
  /\ [](npc = "wait" =>
          \A h \in Range(close_sockets) : sockets[h] = NoSocket)
  /\ [][npc = "close" =>
          /\ total_conns' = total_conns - Len(close_sockets)
          /\ total_conns' >= 0]_vars

\* C25 witness: an iteration queued two handles, one by preemption and one by
\* expiry; at its end both are out of the socket set and of the map
C25_Witness ==
  /\ npc = "wait"
  /\ Len(close_sockets) = 2
  /\ close_sockets[2] \in DOMAIN exam_ages
  /\ close_sockets[1] \notin DOMAIN exam_ages
  /\ \A h \in Range(close_sockets) :
       sockets[h] = NoSocket /\ h \notin DOMAIN dynamic_sockets

\* C26: a dynamic connection leaves the socket set only in the close step,
\* queued either by the pass for its lifetime or by a preemption at capacity;
\* the pass never closes a connection whose elapsed time is at most its
\* lifetime, and a connection past its lifetime when a pass begins is closed
\* by that pass.
C26_ExpiryOrPreemption ==
  /\ [](\A h \in DOMAIN exam_ages : exam_ages[h].age > exam_ages[h].life)
  /\ [](npc = "process" =>
          /\ Len(close_sockets) <= 1
          /\ close_sockets # <<>> =>
               ncfg.preempt /\ DynSize = ncfg.connections_dyn_max)
  /\ [](npc = "close" =>
          \A i \in 1..Len(close_sockets) :
            \/ close_sockets[i] \in DOMAIN exam_ages
            \/ i = 1 /\ ncfg.preempt)
  /\ [][(npc = "process" /\ npc' = "close") =>
          \A h \in DOMAIN dynamic_sockets :
            dynamic_sockets[h].age > dynamic_sockets[h].life
              => (h \notin DOMAIN dynamic_sockets' /\ h \in DOMAIN exam_ages')]_vars
  /\ [][\A h \in Handles :
          (Running /\ npc' # "setup" /\ sockets[h].kind = "dynamic"
             /\ sockets'[h] # sockets[h])
            => (npc = "close" /\ h \in Range(close_sockets))]_vars

\* C26 witness: a pass closed one connection that was past its lifetime and
\* kept another whose elapsed time had just reached its lifetime
C26_Witness ==
  /\ npc = "close"
  /\ \E h \in DOMAIN exam_ages : exam_ages[h].age = exam_ages[h].life + 1
  /\ \E h \in DOMAIN dynamic_sockets :
       /\ dynamic_sockets[h].life >= 1
       /\ dynamic_sockets[h].age = dynamic_sockets[h].life

\* ------------------------------------------------- Endpoints worker payload
\* PortRange::get_range: the ports start .. start + length - 1
get_range(start, length) == start..(start + length - 1)

\* the port of the i-th thread of a run
PortOf(i) == e_cfg.start + i - 1

\* a listen thread has returned, with Ok or with the bind's error
Finished(th) == th.st \in {"done", "failed"}

\* mutant of Joined: the join loop leaves the last handle out
JoinedButLast(threads) == IF threads = <<>> THEN 0 ELSE Len(threads) - 1

\* for listener in listeners { listener.join().unwrap() }: every handle
Joined(threads) == Len(threads)

\* listeners = get_range().map(|port| thread::spawn(listen(port, ..))).collect()
EpSpawn ==
  /\ e_pc = "run"
  /\ e_threads' = [i \in 1..Cardinality(get_range(e_cfg.start, e_cfg.length))
                     |-> [st |-> "spawned", wake |-> 0]]
  /\ e_join' = 0
  /\ e_now' = 0
  /\ e_pc' = "join"
  /\ UNCHANGED <<e_cfg, e_open, supVars, netVars, fnVars, srvVars, procVars,
                 bpfVars, waitVars, childVars>>

\* listen: TcpListener::bind(addr)? returns the error at once; otherwise the
\* thread holds the listener and sleeps restart_interval seconds
EpBind(i, ok) ==
  /\ e_pc = "join"
  /\ i \in DOMAIN e_threads
  /\ e_threads[i].st = "spawned"
  /\ IF ok /\ PortOf(i) \notin e_open
     THEN /\ e_threads' = [e_threads EXCEPT
                             ![i] = [st |-> "listening",
                                     wake |-> e_now + e_cfg.restart_interval]]
          /\ e_open' = e_open \cup {PortOf(i)}
     ELSE /\ e_threads' = [e_threads EXCEPT ![i].st = "failed"]
          /\ e_open' = e_open
  /\ UNCHANGED <<e_cfg, e_pc, e_join, e_now, supVars, netVars, fnVars, srvVars,
                 procVars, bpfVars, waitVars, childVars>>

\* the sleep of a listen thread is over: the listener is dropped, Ok(())
EpWake(i) ==
  /\ i \in DOMAIN e_threads
  /\ e_threads[i].st = "listening"
  /\ e_now >= e_threads[i].wake
  /\ e_threads' = [e_threads EXCEPT ![i].st = "done"]
  /\ e_open' = e_open \ {PortOf(i)}
  /\ UNCHANGED <<e_cfg, e_pc, e_join, e_now, supVars, netVars, fnVars, srvVars,
                 procVars, bpfVars, waitVars, childVars>>

\* a second passes while the payload runs
EpTick ==
  /\ e_pc = "join"
  /\ \/ e_now < MaxBindDelay
     \/ \E i \in DOMAIN e_threads :
          e_threads[i].st = "listening" /\ e_threads[i].wake > e_now
  /\ e_now' = e_now + 1
  /\ UNCHANGED <<e_cfg, e_pc, e_threads, e_join, e_open, supVars, netVars,
                 fnVars, srvVars, procVars, bpfVars, waitVars, childVars>>

\* listener.join().unwrap() returns once that thread has returned
EpJoin ==
  /\ e_pc = "join"
  /\ e_join < Joined(e_threads)
  /\ Finished(e_threads[e_join + 1])
  /\ e_join' = e_join + 1
  /\ UNCHANGED <<e_cfg, e_pc, e_threads, e_now, e_open, supVars, netVars,
                 fnVars, srvVars, procVars, bpfVars, waitVars, childVars>>

\* the join loop is through: Ok(())
EpReturn ==
  /\ e_pc = "join"
  /\ e_join = Joined(e_threads)
  /\ e_pc' = "returned"
  /\ UNCHANGED <<e_cfg, e_threads, e_join, e_now, e_open, supVars, netVars,
                 fnVars, srvVars, procVars, bpfVars, waitVars, childVars>>

\* the child's loop { worker.run_payload().unwrap() } calls the payload again
EpAgain ==
  /\ e_pc = "returned"
  /\ e_pc' = "run"
  /\ UNCHANGED <<e_cfg, e_threads, e_join, e_now, e_open, supVars, netVars,
                 fnVars, srvVars, procVars, bpfVars, waitVars, childVars>>

\* an EndpointWorker as Worker::new makes it: restart_interval of the
\* configuration, a port slice of 0..MaxPorts ports from the allocator
InitEnd ==
  /\ e_cfg \in [restart_interval : 0..MaxInterval, start : {FirstPort},
                 length : 0..MaxPorts]
  /\ e_pc = "run"
  /\ e_threads = <<>>
  /\ e_join = 0
  /\ e_now = 0
  /\ e_open = {}
  /\ SupIdle
  /\ NetIdle
  /\ FnIdle
  /\ SrvIdle
  /\ ProcIdle
  /\ BpfIdle
  /\ WaitIdle
  /\ ChildIdle

NextEnd ==
  \/ EpSpawn
  \/ \E i \in 1..MaxPorts, ok \in BOOLEAN : EpBind(i, ok)
  \/ \E i \in 1..MaxPorts : EpWake(i)
  \/ EpTick
  \/ EpJoin
  \/ EpReturn
  \/ EpAgain

SpecEnd == InitEnd /\ [][NextEnd]_vars

\* C21: every run of the Endpoints payload takes restart_interval seconds
\* before it returns, with an empty port range and with failing binds too.
C21_RunTakesInterval ==
  e_pc = "returned" => e_now >= e_cfg.restart_interval

\* C28: the payload returns only after every listen thread of the run has
\* returned and been joined, so this process holds no listener when a run
\* ends or begins, and a bind never meets a listener of the run before.
C28_JoinedBeforeReturn ==
  /\ [](e_pc = "returned" =>
          /\ e_join = Len(e_threads)
          /\ \A i \in DOMAIN e_threads : Finished(e_threads[i]))
  /\ []((e_pc \in {"returned", "run"}) => e_open = {})
  /\ [](e_open \subseteq
          {PortOf(i) : i \in {j \in DOMAIN e_threads :
                                e_threads[j].st = "listening"}})

\* C28 witness: a run over two ports has returned after both threads had
\* listened for restart_interval >= 1 seconds and were joined
C28_Witness ==
  /\ e_pc = "returned"
  /\ e_cfg.restart_interval >= 1
  /\ Len(e_threads) = 2
  /\ \A i \in DOMAIN e_threads : e_threads[i].st = "done"
  /\ e_now >= e_cfg.restart_interval

\* ------------------------------------------------- network server handlers
\* what read_line gives: Ok(0), Ok(n) with n > 0, Err(e)
ReadResults == {"Eof", "Line", "Err"}

\* mutant of AfterRead: a read error ends the handler like EOF does
AfterReadBreak(res) ==
  CASE res = "Eof" -> "done"
    [] res = "Line" -> "write"
    [] res = "Err" -> "done"

\* match buf_reader.read_line(..): Ok(0) => break, Ok(_n) => reply,
\* Err(e) => trace!(..) and the loop goes round
AfterRead(res) ==
  CASE res = "Eof" -> "done"
    [] res = "Line" -> "write"
    [] res = "Err" -> "read"

\* match stream.write_all(..): Ok(_) => next line, Err(e) => break
AfterWrite(ok) == IF ok THEN "read" ELSE "done"

\* TcpListener::bind((addr, target_port)).unwrap()
SrvBind(ok) ==
  /\ s_pc = "bind"
  /\ s_pc' = IF ok THEN "accept" ELSE "panicked"
  /\ UNCHANGED <<s_conns, supVars, netVars, fnVars, endVars, procVars, bpfVars, waitVars, childVars>>

\* for stream in listener.incoming(): stream.unwrap(), thread::spawn(handler)
SrvAccept(ok) ==
  /\ s_pc = "accept"
  /\ Len(s_conns) < MaxConns
  /\ IF ok
     THEN /\ s_conns' = Append(s_conns, [pc |-> "read", last |-> "none",
                                         replies |-> 0, errs |-> 0])
          /\ s_pc' = s_pc
     ELSE /\ s_pc' = "panicked"
          /\ s_conns' = s_conns
  /\ UNCHANGED <<supVars, netVars, fnVars, endVars, procVars, bpfVars, waitVars, childVars>>

\* one read_line of the handler of connection c
HandlerRead(c, res) ==
  /\ s_pc = "accept"
  /\ c \in DOMAIN s_conns
  /\ s_conns[c].pc = "read"
  /\ res = "Line" => s_conns[c].replies < MaxReplies
  /\ res = "Err" => s_conns[c].errs < MaxErrs
  /\ s_conns' = [s_conns EXCEPT
                   ![c].pc = AfterRead(res),
                   ![c].last = res,
                   ![c].errs = IF res = "Err" THEN @ + 1 ELSE @]
  /\ UNCHANGED <<s_pc, supVars, netVars, fnVars, endVars, procVars, bpfVars, waitVars, childVars>>

\* the reply of the handler of connection c to the line it read
HandlerWrite(c, ok) ==
  /\ s_pc = "accept"
  /\ c \in DOMAIN s_conns
  /\ s_conns[c].pc = "write"
  /\ s_conns' = [s_conns EXCEPT
                   ![c].pc = AfterWrite(ok),
                   ![c].last = IF ok THEN "Reply" ELSE "WriteErr",
                   ![c].replies = IF ok THEN @ + 1 ELSE @]
  /\ UNCHANGED <<s_pc, supVars, netVars, fnVars, endVars, procVars, bpfVars, waitVars, childVars>>

InitSrv ==
  /\ s_pc = "bind"
  /\ s_conns = <<>>
  /\ SupIdle
  /\ NetIdle
  /\ FnIdle
  /\ EndIdle
  /\ ProcIdle
  /\ BpfIdle
  /\ WaitIdle
  /\ ChildIdle

NextSrv ==
  \/ \E ok \in BOOLEAN : SrvBind(ok)
  \/ \E ok \in BOOLEAN : SrvAccept(ok)
  \/ \E c \in 1..MaxConns, res \in ReadResults : HandlerRead(c, res)
  \/ \E c \in 1..MaxConns, ok \in BOOLEAN : HandlerWrite(c, ok)

SpecSrv == InitSrv /\ [][NextSrv]_vars

\* the handler of connection c makes a read in this step, with this result
ReadStep(c, res) ==
  /\ c \in DOMAIN s_conns
  /\ s_conns[c].pc = "read"
  /\ s_conns'[c] # s_conns[c]
  /\ s_conns'[c].last = res

\* C22: a handler thread of the server ends as soon as a read returns EOF or
\* a read error; it does not go on reading a connection whose read failed.
C22_ReadErrorEnds ==
  [][\A c \in 1..MaxConns :
       (ReadStep(c, "Eof") \/ ReadStep(c, "Err")) => s_conns'[c].pc = "done"]_vars

\* C22 as amended: a handler thread ends when a read returns EOF or when the
\* write of a reply fails, and for no other reason; after a read error it
\* is logged and the handler reads the same connection again.
C22_EndsOnEofOrWriteError ==
  /\ [][\A c \in 1..MaxConns :
          /\ ReadStep(c, "Eof") => s_conns'[c].pc = "done"
          /\ ReadStep(c, "Err") =>
               s_conns'[c].pc = "read" /\ s_conns'[c].errs = s_conns[c].errs + 1
          /\ ReadStep(c, "Line") => s_conns'[c].pc = "write"]_vars
  /\ [](\A c \in DOMAIN s_conns :
          s_conns[c].pc = "done" <=> s_conns[c].last \in {"Eof", "WriteErr"})

\* C22 witness: a handler met read errors, went on to reply to a line and
\* ended at EOF
C22_Witness ==
  \E c \in DOMAIN s_conns :
    /\ s_conns[c].errs >= 1
    /\ s_conns[c].replies >= 1
    /\ s_conns[c].pc = "done"
    /\ s_conns[c].last = "Eof"

\* ------------------------------------------------- Processes worker payload
\* mutant of MaySpawn: the loop spawns only when no spawned process is live
MaySpawnWhenNoneLive(procs) == \A k \in DOMAIN procs : procs[k] # "live"

\* what the arrival loop asks of the processes it spawned before it spawns
\* the next: nothing, the JoinHandle of thread::spawn is dropped
MaySpawn(procs) == TRUE

\* loop { lifetime draw; thread::spawn(move || worker.spawn_process(..)); ..
ProcSpawn ==
  /\ p_pc = "spawn"
  /\ MaySpawn(p_procs)
  /\ Len(p_procs) < MaxSpawn
  /\ p_procs' = Append(p_procs, "starting")
  /\ p_pc' = "sleep"
  /\ UNCHANGED <<p_cfg, supVars, netVars, fnVars, endVars, srvVars, bpfVars, waitVars, childVars>>

\* .. interval draw; thread::sleep(interval ms) } is over
ProcSleepEnds ==
  /\ p_pc = "sleep"
  /\ p_pc' = "spawn"
  /\ UNCHANGED <<p_cfg, p_procs, supVars, netVars, fnVars, endVars, srvVars,
                 bpfVars, waitVars, childVars>>

\* spawn_process in helper thread k: fork() (or Command::new("stub") with
\* random_process); Err(_) => warn!("Failed"), a failed Command panics the
\* helper thread alone
HelperFork(k, ok) ==
  /\ k \in DOMAIN p_procs
  /\ p_procs[k] = "starting"
  /\ p_procs' = [p_procs EXCEPT ![k] = IF ok THEN "live" ELSE "failed"]
  /\ UNCHANGED <<p_cfg, p_pc, supVars, netVars, fnVars, endVars, srvVars,
                 bpfVars, waitVars, childVars>>

\* the process of helper k ends (the forked child after its lifetime, the
\* stub when it exits): waitpid / output() returns in the helper thread
ProcDeparts(k) ==
  /\ k \in DOMAIN p_procs
  /\ p_procs[k] = "live"
  /\ p_procs' = [p_procs EXCEPT ![k] = "done"]
  /\ UNCHANGED <<p_cfg, p_pc, supVars, netVars, fnVars, endVars, srvVars,
                 bpfVars, waitVars, childVars>>

InitProc ==
  /\ p_cfg \in [random_process : BOOLEAN]
  /\ p_pc = "spawn"
  /\ p_procs = <<>>
  /\ SupIdle
  /\ NetIdle
  /\ FnIdle
  /\ EndIdle
  /\ SrvIdle
  /\ BpfIdle
  /\ WaitIdle
  /\ ChildIdle

NextProc ==
  \/ ProcSpawn
  \/ ProcSleepEnds
  \/ \E k \in 1..MaxSpawn, ok \in BOOLEAN : HelperFork(k, ok)
  \/ \E k \in 1..MaxSpawn : ProcDeparts(k)

SpecProc == InitProc /\ [][NextProc]_vars

\* the arrival loop is the worker's own thread: it is scheduled and its sleep
\* ends; nothing is assumed of the helper threads or of the departures
FairProc == SpecProc /\ WF_vars(ProcSpawn) /\ WF_vars(ProcSleepEnds)

\* C29: arrivals are not suppressed when departures lag: the arrival loop
\* spawns whenever its sleep is over, whatever became of the processes
\* spawned before, and goes on to MaxSpawn arrivals even if no departure and
\* no helper thread ever makes a step.
C29_ArrivalsNotSuppressed ==
  /\ []((p_pc = "spawn" /\ Len(p_procs) < MaxSpawn) => ENABLED ProcSpawn)
  /\ <>(Len(p_procs) = MaxSpawn)

\* C29 witness: every process the loop spawned is live at the same time
C29_Witness ==
  /\ Len(p_procs) = MaxSpawn
  /\ \A k \in DOMAIN p_procs : p_procs[k] = "live"

\* ------------------------------------------------------- BPF worker payload
\* the three syscalls of one round of the loop, in the order of the code
Calls == <<"load", "perf", "link">>

\* mutant of AfterCall: a failed syscall ends the loop
AfterCallStop(call, ok, i, nprogs) ==
  IF ~ok THEN [pc |-> "park", i |-> i]
  ELSE CASE call = "load" -> [pc |-> "perf", i |-> i]
         [] call = "perf" -> [pc |-> "link", i |-> i]
         [] call = "link" -> IF i + 1 < nprogs THEN [pc |-> "load", i |-> i + 1]
                             ELSE [pc |-> "park", i |-> i + 1]

\* where the loop is after a syscall: its result is stored or dropped, never
\* tested; after the link of the last program comes loop { thread::park() }
AfterCall(call, ok, i, nprogs) ==
  CASE call = "load" -> [pc |-> "perf", i |-> i]
    [] call = "perf" -> [pc |-> "link", i |-> i]
    [] call = "link" -> IF i + 1 < nprogs THEN [pc |-> "load", i |-> i + 1]
                        ELSE [pc |-> "park", i |-> i + 1]

\* the syscalls of round i made so far that failed
FailedIn(log, i) == {n \in DOMAIN log : log[n].i = i /\ ~log[n].ok}

\* run_payload up to the loop: attributes prepared, for i in 0..nprogs
BpfStart ==
  /\ b_pc = "start"
  /\ b_i' = 0
  /\ b_pc' = IF b_cfg.nprogs = 0 THEN "park" ELSE "load"
  /\ UNCHANGED <<b_cfg, b_log, b_parks, supVars, netVars, fnVars, endVars,
                 srvVars, procVars, waitVars, childVars>>

\* one libc::syscall of the loop; BPF_LINK_CREATE is given the fds of the two
\* calls before it and fails when one of them is -1
BpfSyscall(ok) ==
  /\ b_pc \in {"load", "perf", "link"}
  /\ (b_pc = "link" /\ FailedIn(b_log, b_i) # {}) => ~ok
  /\ b_log' = Append(b_log, [call |-> b_pc, i |-> b_i, ok |-> ok])
  /\ \E nx \in {AfterCall(b_pc, ok, b_i, b_cfg.nprogs)} :
       /\ b_pc' = nx.pc
       /\ b_i' = nx.i
  /\ UNCHANGED <<b_cfg, b_parks, supVars, netVars, fnVars, endVars, srvVars,
                 procVars, waitVars, childVars>>

\* loop { thread::park(); }: park may return, and is called again
BpfPark ==
  /\ b_pc = "park"
  /\ b_parks < MaxParks
  /\ b_parks' = b_parks + 1
  /\ UNCHANGED <<b_cfg, b_pc, b_i, b_log, supVars, netVars, fnVars, endVars,
                 srvVars, procVars, waitVars, childVars>>

InitBpf ==
  /\ b_cfg \in [nprogs : 0..MaxProgs]
  /\ b_pc = "start"
  /\ b_i = 0
  /\ b_log = <<>>
  /\ b_parks = 0
  /\ SupIdle
  /\ NetIdle
  /\ FnIdle
  /\ EndIdle
  /\ SrvIdle
  /\ ProcIdle
  /\ WaitIdle
  /\ ChildIdle

NextBpf ==
  \/ BpfStart
  \/ \E ok \in BOOLEAN : BpfSyscall(ok)
  \/ BpfPark

SpecBpf == InitBpf /\ [][NextBpf]_vars

\* C30: for each i in 0..nprogs the worker makes the calls load, perf, link
\* in that order, whatever their results; after the last program it parks
\* for good: the payload does not return and makes no further syscall.
C30_LoadOnceThenPark ==
  /\ [](\A n \in DOMAIN b_log :
          /\ b_log[n].call = Calls[((n - 1) % 3) + 1]
          /\ b_log[n].i = (n - 1) \div 3)
  /\ [](Len(b_log) <= 3 * b_cfg.nprogs)
  /\ [](b_pc = "park" => Len(b_log) = 3 * b_cfg.nprogs)
  /\ [][b_pc = "park" => (b_pc' = "park" /\ b_log' = b_log)]_vars

\* C30 witness: two programs, the load of the first failed, all six calls
\* were made and the thread has come back to park after a wake-up
C30_Witness ==
  /\ b_cfg.nprogs = 2
  /\ b_pc = "park"
  /\ b_parks >= 1
  /\ Len(b_log) = 6
  /\ ~b_log[1].ok
  /\ b_log[4].ok

\* ------------------------------------- a network client under the supervisor
\* The first child of the fan-out runs the network client in the detail of
\* start_client; the other children are seen as the supervisor sees them.
ClientConfig ==
  [connections_static |-> 1, connections_dyn_max |-> 1, conns_per_addr |-> 1,
   preempt |-> FALSE, send_interval |-> 0, address |-> <<10, 0, 255, 255>>]

\* the process of the first child is alive
ClientRuns == Len(child) >= 1 /\ child[1].st = "running"

\* mutant of PanicEnds: the process lives on after the panic
PanicSurvives(c) == c

\* a panic in the child's only thread unwinds out of run() and main(): the
\* process ends
PanicEnds(c) == [c EXCEPT !.st = "exited"]

\* the child's loop { worker.run_payload().unwrap() } enters start_client
ClientStart ==
  /\ ClientRuns
  /\ npc = "off"
  /\ ncfg' = ClientConfig
  /\ npc' = "setup"
  /\ UNCHANGED <<sockets, dynamic_sockets, total_conns, close_sockets,
                 arrivals_age, interval, send_age, last_index, sent, since_send,
                 send_gaps, exam_ages, supVars, auxVars>>

\* an .unwrap() of the client meets an Err: the panic message is all that
\* is left of the client
ClientPanics ==
  /\ npc' = "panicked"
  /\ child' = [child EXCEPT ![1] = PanicEnds(@)]
  /\ UNCHANGED <<ncfg, sockets, dynamic_sockets, close_sockets, arrivals_age,
                 interval, send_age, sent, since_send, send_gaps, exam_ages,
                 auxVars, config, online, pc, slot, lower, upper, made, handles,
                 now, wpc, wake, wi, rpc, ri, forked, draws, killLog, waitLog,
                 waitErr, sigAt, overslept, scopeAt>>

\* setup_tuntap: TunTapInterface::new("berserker0", Medium::Ip).unwrap()
TunError ==
  /\ ClientRuns
  /\ npc = "setup"
  /\ ClientPanics
  /\ UNCHANGED <<total_conns, last_index>>

\* the connect of a static socket: socket.connect(..).unwrap()
StaticConnectError ==
  /\ ClientRuns
  /\ npc = "setup"
  /\ ncfg.connections_static >= 1
  /\ ClientPanics
  /\ UNCHANGED <<total_conns, last_index>>

\* the connect of a new dynamic socket: total_conns += 1, then, with room in
\* the map, socket.connect(..).unwrap()
DynConnectError ==
  /\ ClientRuns
  /\ ArrivalDue
  /\ total_conns < MaxTotal
  /\ HasRoom(dynamic_sockets, ncfg)
  /\ total_conns' = total_conns + 1
  /\ last_index' = total_conns + 1
  /\ ClientPanics

InitCrash == InitSup({"Network"}) /\ config.duration = 0

NextCrash ==
  \/ FanOut
  \/ StartScope
  \/ Exits
  \/ ReaperWait
  \/ ReaperDone
  \/ ScopeJoin
  \/ ClientStart
  \/ ClientRuns /\ \E iv \in Intervals : Setup(iv)
  \/ ClientRuns /\ Arrival
  \/ ClientRuns /\ Process
  \/ ClientRuns /\ CloseStep
  \/ ClientRuns /\ \E d \in Waits : WaitStep(d)
  \/ TunError
  \/ StaticConnectError
  \/ DynConnectError

SpecCrash == InitCrash /\ [][NextCrash]_vars

\* C27: a connect or TUN open error ends the worker process: its payload is
\* not run again, the supervisor forks nothing in its place (the children it
\* knows are those of the fan-out), and the step of the failure changes no
\* other child.
C27_ConnectErrorFatal ==
  /\ [](npc = "panicked" => child[1].st \in {"exited", "reaped"})
  /\ [][npc = "panicked" => npc' = "panicked"]_vars
  /\ [][(npc # "panicked" /\ npc' = "panicked") =>
          /\ child[1].st = "running"
          /\ \A p \in 2..Len(child) : child'[p] = child[p]
          /\ Len(child') = Len(child)
          /\ handles' = handles
          /\ forked' = forked]_vars
  /\ [][pc # "fanout" =>
          (handles' = handles /\ forked' = forked /\ Len(child') = Len(child))]_vars

\* C27 witness: the connect of a new dynamic connection failed in the first
\* child while a second child was running; the reaper has waited on the
\* first and the second is still running
C27_Witness ==
  /\ npc = "panicked"
  /\ last_index > ncfg.connections_static
  /\ Len(child) = 2
  /\ child[1].st = "reaped"
  /\ child[2].st = "running"
  /\ Len(forked) = 2

\* ----------------------------------------- the wait of the network client
\* Option<Duration>: NoDelay is None, <<n>> is Some(n ms)
Some(n) == <<n>>

\* Option::min: the derived order of Option puts None below every Some
OptionMin(a, b) ==
  IF a = NoDelay \/ b = NoDelay THEN NoDelay
  ELSE IF a[1] <= b[1] THEN a ELSE b

\* Option::or: the first value when it is a Some, else the second
OptionOr(a, b) == IF a = NoDelay THEN b ELSE a

\* mutant of WaitDuration: the loop waits for poll_delay alone
WaitDurationPollOnly(poll_delay) == poll_delay

\* iface.poll_delay(..).min(Some(min_duration)).or(Some(min_duration))
WaitDuration(poll_delay) ==
  OptionOr(OptionMin(poll_delay, Some(min_duration)), Some(min_duration))

\* what iface.poll_delay can give
PollDelays == {NoDelay} \cup {Some(n) : n \in 0..MaxPollDelay}

\* the end of an iteration: the timeout is computed and phy_wait is entered
WaitBegin(pd) ==
  /\ w_pc = "iter"
  /\ w_poll' = pd
  /\ w_timeout' = WaitDuration(pd)
  /\ w_waited' = 0
  /\ w_pc' = "wait"
  /\ UNCHANGED <<supVars, netVars, fnVars, endVars, srvVars, procVars, bpfVars, childVars>>

\* a millisecond passes in phy_wait; with a timeout it passes only while the
\* timeout has not run out
WaitTick ==
  /\ w_pc = "wait"
  /\ IF w_timeout = NoDelay THEN w_waited < MaxPollDelay
     ELSE w_waited < w_timeout[1]
  /\ w_waited' = w_waited + 1
  /\ UNCHANGED <<w_pc, w_poll, w_timeout, supVars, netVars, fnVars, endVars,
                 srvVars, procVars, bpfVars, childVars>>

\* phy_wait returns Ok because its timeout has run out
WaitTimeout ==
  /\ w_pc = "wait"
  /\ w_timeout # NoDelay
  /\ w_waited = w_timeout[1]
  /\ w_pc' = "iter"
  /\ UNCHANGED <<w_poll, w_timeout, w_waited, supVars, netVars, fnVars, endVars,
                 srvVars, procVars, bpfVars, childVars>>

\* phy_wait returns Ok before that, the TUN file descriptor being readable
WaitReadable ==
  /\ w_pc = "wait"
  /\ w_timeout # NoDelay => w_waited < w_timeout[1]
  /\ w_pc' = "iter"
  /\ UNCHANGED <<w_poll, w_timeout, w_waited, supVars, netVars, fnVars, endVars,
                 srvVars, procVars, bpfVars, childVars>>

\* phy_wait returns Err: .expect("wait error") panics
WaitFails ==
  /\ w_pc = "wait"
  /\ w_pc' = "panicked"
  /\ UNCHANGED <<w_poll, w_timeout, w_waited, supVars, netVars, fnVars, endVars,
                 srvVars, procVars, bpfVars, childVars>>

InitWait ==
  /\ w_pc = "iter"
  /\ w_poll = NoDelay
  /\ w_timeout = NoDelay
  /\ w_waited = 0
  /\ SupIdle
  /\ NetIdle
  /\ FnIdle
  /\ EndIdle
  /\ SrvIdle
  /\ ProcIdle
  /\ BpfIdle
  /\ ChildIdle

NextWait ==
  \/ \E pd \in PollDelays : WaitBegin(pd)
  \/ WaitTick
  \/ WaitTimeout
  \/ WaitReadable
  \/ WaitFails

SpecWait == InitWait /\ [][NextWait]_vars

\* time passes and a timeout that has run out ends the wait; nothing is
\* assumed of the traffic on the file descriptor
FairWait == SpecWait /\ WF_vars(WaitTick) /\ WF_vars(WaitTimeout)

\* C31: the wait that ends an iteration is bounded by 100 ms: its timeout is
\* the smaller of the poll delay and 100 ms, and 100 ms when there is no
\* poll delay; the wait never lasts longer, and every wait ends even when
\* the file descriptor never becomes readable.
C31_WaitBounded ==
  /\ [](w_pc = "wait" =>
          /\ w_timeout \in {<<n>> : n \in 0..min_duration}
          /\ w_poll = NoDelay => w_timeout = <<min_duration>>
          /\ w_poll # NoDelay =>
               w_timeout = IF w_poll[1] < min_duration THEN w_poll
                           ELSE <<min_duration>>
          /\ w_waited <= w_timeout[1])
  /\ [](w_pc = "wait" => <>(w_pc # "wait"))

\* C31 witness: the stack reported no delay and the wait ended after the
\* full 100 ms
C31_Witness ==
  /\ w_pc = "iter"
  /\ w_poll = NoDelay
  /\ w_timeout = <<min_duration>>
  /\ w_waited = min_duration

\* C32: the keys of the dynamic map stay valid: while the client runs every
\* key is the handle of a dynamic socket of the socket set, and a handle that
\* is a key of the map or in the close queue of the iteration is never given
\* to a different socket: its slot keeps its socket or is emptied, and
\* a new socket gets a slot that was free.
C32_KeysStayValid ==
  /\ []((npc \in {"arrival", "process"}) =>
          \A h \in DOMAIN dynamic_sockets :
            h \in Occupied(sockets) /\ sockets[h].kind = "dynamic")
  /\ [][(Running /\ npc' \notin {"setup", "panicked"}) =>
          \A h \in Handles :
            /\ (\/ h \in DOMAIN dynamic_sockets
                 \/ (h \in Range(close_sockets) /\ npc \in {"process", "close"})
                 \/ h \in Range(close_sockets'))
                => sockets'[h] \in {sockets[h], NoSocket}
            /\ (sockets[h] # sockets'[h] /\ sockets'[h] # NoSocket)
                => sockets[h] = NoSocket]_vars

\* C32 witness: an arrival preempted a dynamic connection and was given a
\* handle while the victim, queued for close, still held its slot
C32_Witness ==
  /\ npc = "process"
  /\ Len(close_sockets) = 1
  /\ sockets[close_sockets[1]].kind = "dynamic"
  /\ close_sockets[1] \notin DOMAIN dynamic_sockets
  /\ \E h \in DOMAIN dynamic_sockets :
       /\ h # close_sockets[1]
       /\ dynamic_sockets[h].age = 0
       /\ sockets[h].index = last_index

\* C33: the watchdog never sends SIGTERM early and never twice: every kill
\* is made strictly later than `duration` seconds after the start of run(),
\* each recorded child is signalled at most once, and once the watchdog has
\* ended no further kill is made.
C33_NeverEarlyNeverTwice ==
  /\ [][killLog' # killLog => now > SecTicks(config.duration)]_vars
  /\ [](NoDuplicates(KilledPids))
  /\ [][wpc = "done" => (wpc' = "done" /\ killLog' = killLog)]_vars

\* C33 witness: the watchdog has ended after signalling two children, the
\* first of them at the earliest tick the budget allows
C33_Witness ==
  /\ config.duration > 0
  /\ wpc = "done"
  /\ Len(killLog) = 2
  /\ \E p \in 1..Len(sigAt) : sigAt[p] = SecTicks(config.duration + 1)

\* C34: under every interleaving of the watchdog and the reaper, no kill is
\* made on the pid of a child the reaper has already waited on.
C34_NoKillAfterReap ==
  \A i \in 1..Len(killLog) : killLog[i].st # "reaped"

\* C35: with duration > 0, run() does not return before the watchdog has
\* fired: when run() has returned the watcher thread has ended, after a
\* check that found more than `duration` seconds elapsed, even when every
\* child had been waited on before.
C35_ReturnsAfterWatchdog ==
  (config.duration > 0 /\ pc = "done") =>
    /\ wpc = "done"
    /\ now > SecTicks(config.duration)
    /\ KilledPids = forked

\* C35 witness: run() has returned from a run with a budget in which both
\* children had ended and been waited on before the watchdog fired, so that
\* both its kills failed
C35_Witness ==
  /\ config.duration > 0
  /\ pc = "done"
  /\ Len(killLog) = 2
  /\ \A i \in 1..Len(killLog) : killLog[i].st = "reaped"

\* ------------------------------------------- the port cursor with wide draws
\* draws a configured distribution can give: Uniform::new(lower, upper) and
\* Zipf::new(n_ports, exponent) take their bounds from the configuration (u64)
WideDraws == {0, 1, 200, 32256, 64511, 64512}

FanOutWide == \E n \in WideDraws, ok \in BOOLEAN : FanOutStep(n, ok)

InitPorts == InitSup({"Endpoints"}) /\ config.duration = 0

NextPorts ==
  \/ FanOutWide
  \/ StartScope

SpecPorts == InitPorts /\ [][NextPorts]_vars

\* C36: for any number of Endpoints workers and any draws the distribution
\* permits, the port cursor stays within the 16-bit port space: the end of
\* every allocated slice (start + length) is at most 65535, and so is every
\* port of it.
C36_CursorInPortSpace ==
  /\ upper <= MaxPort
  /\ \A j \in 1..Len(made) :
       /\ made[j].lower + (made[j].upper - made[j].lower) <= MaxPort
       /\ made[j].upper - 1 <= MaxPort

\* C37: for every conns_per_addr in 1..65535 and every index, the local port
\* get_local_addr_port computes is in 49152..65535: the sum
\* 49152 + (index mod conns_per_addr) does not overflow 16 bits. (Calls whose
\* address sum overflows are left aside.)
C37_PortInRange ==
  (/\ f_out # NotCalled
   /\ ~AddrOverflows(f_in.addr, (f_in.index \div f_in.conns_per_addr) + 1)) =>
    /\ f_out.st = "ok"
    /\ f_out.port \in BasePort..MaxPort

\* C38: at every iteration boundary of the network client total_conns is at
\* least the number of sockets in the socket set, and the close step never
\* takes more off total_conns than it holds: total_conns never goes below 0.
C38_TotalCoversSockets ==
  /\ [](AtBoundary => total_conns >= Cardinality(Occupied(sockets)))
  /\ [](Running => total_conns >= 0)
  /\ [][npc = "close" =>
          /\ total_conns >= Len(close_sockets)
          /\ total_conns' >= Cardinality(Occupied(sockets'))]_vars

\* C38 witness: at a boundary total_conns is exactly the number of sockets
\* after an iteration that closed two of them
C38_Witness ==
  /\ AtBoundary
  /\ Len(close_sockets) = 2
  /\ total_conns = Cardinality(Occupied(sockets))
  /\ total_conns >= 1

\* the handles whose slot gets a dynamic socket in this step
NewDynamic ==
  {h \in Handles : sockets'[h] # sockets[h] /\ sockets'[h].kind = "dynamic"}

\* C39: the client creates at most one dynamic connection per loop
\* iteration, however long the arrival has been overdue: only the arrival
\* step of an iteration adds a socket, it adds at most one and counts one
\* arrival, and it starts the arrival timer from zero, so the next arrival
\* waits for a whole new interval.
C39_OneArrivalPerIteration ==
  [][(Running /\ npc' \notin {"setup", "panicked"}) =>
       /\ Cardinality(NewDynamic) <= 1
       /\ total_conns' <= total_conns + 1
       /\ npc # "arrival" =>
            (NewDynamic = {} /\ total_conns' <= total_conns)
       /\ ArrivalDue =>
            (arrivals_age' = 0 /\ total_conns' = total_conns + 1)]_vars

\* C39 witness: an overdue arrival has just been admitted next to an older
\* dynamic connection; it is the only new socket and the timer is at zero
C39_Witness ==
  /\ npc = "process"
  /\ arrivals_age = 0
  /\ Cardinality(DOMAIN dynamic_sockets) = 2
  /\ \E g, h \in DOMAIN dynamic_sockets :
       /\ g # h
       /\ sockets[h].index = last_index
       /\ dynamic_sockets[h].age = 0
       /\ dynamic_sockets[g].age >= 1

\* the worker children beside the supervisor's fan-out

MaxRuns == 2

\* mutant of AfterPayload: an Err ends the loop and the closure returns,
\* so that the child goes on with the supervisor's iteration
AfterPayloadBreak(res) == IF res = "Ok" THEN "loop" ELSE "map"

\* loop { worker.run_payload().unwrap(); }: an Ok starts the payload
\* again, an Err panics; the loop has no break
AfterPayload(res) == IF res = "Ok" THEN "loop" ELSE "panicked"

\* the processes the parent's forks have made
ForkedChildren == {p \in 1..Len(child) : child[p].st # "none"}

\* Fork::Child: if config.per_core { set_for_current(cpu) }, then the loop
ChildPin(p) ==
  /\ p \in ForkedChildren
  /\ child[p].st = "running"
  /\ k_pc[p] = "start"
  /\ k_pc' = [k_pc EXCEPT ![p] = "loop"]
  /\ UNCHANGED <<supVars, netVars, fnVars, endVars, srvVars, procVars,
                 bpfVars, waitVars, k_runs, k_extra>>

\* one run_payload() of child p returns res. A child that came back into
\* the closure's caller (possible only with a loop that ends) would fork
\* the next element of the iteration
ChildPayload(p, res) ==
  /\ p \in ForkedChildren
  /\ child[p].st = "running"
  /\ k_pc[p] = "loop"
  /\ LET nx == AfterPayload(res)
     IN /\ nx = "loop" => k_runs[p] < MaxRuns
        /\ k_pc' = [k_pc EXCEPT ![p] = nx]
        /\ k_runs' = IF nx = "loop" THEN [k_runs EXCEPT ![p] = @ + 1] ELSE k_runs
        /\ k_extra' = IF nx = "map" THEN k_extra + 1 ELSE k_extra
        /\ child' = IF nx = "panicked"
                      THEN [child EXCEPT ![p] = PanicEnds(@)] ELSE child
  /\ UNCHANGED <<netVars, fnVars, endVars, srvVars, procVars, bpfVars,
                 waitVars, config, online, pc, slot, lower, upper, made,
                 handles, now, wpc, wake, wi, rpc, ri, forked, draws, killLog,
                 waitLog, waitErr, sigAt, overslept, scopeAt>>

ChildStep == \E p \in 1..MaxSlots : ChildPin(p)

ChildRuns == \E p \in 1..MaxSlots, res \in {"Ok", "Err"} : ChildPayload(p, res)

InitChild == InitSup({"Endpoints", "Processes"}) /\ config.duration = 0

NextChild ==
  \/ FanOut
  \/ StartScope
  \/ ChildStep
  \/ ChildRuns

SpecChild == InitChild /\ [][NextChild]_vars

\* C40: a forked child never re-enters the supervisor's fan-out: it is
\* always before its loop, in it, or dead of a panic, it forks nothing, and
\* the iteration cursor, the handle list and the scope's threads move only
\* in the parent's own steps; so the processes created are exactly the
\* parent's successful forks.
C40_ChildStaysInLoop ==
  /\ [](\A p \in 1..MaxSlots : k_pc[p] \in {"start", "loop", "panicked"})
  /\ [](k_extra = 0)
  /\ [](Cardinality(ForkedChildren) + k_extra = Len(forked))
  /\ [][(k_pc' # k_pc \/ k_runs' # k_runs) =>
         /\ slot' = slot /\ handles' = handles /\ forked' = forked
         /\ made' = made /\ Len(child') = Len(child)
         /\ pc' = pc /\ wpc' = wpc /\ rpc' = rpc]_vars

\* C40 witness: both forks succeeded and the fan-out is over; one child
\* has been through its payload and is in the loop still, the other has
\* panicked out of it; there are two processes and two forks
C40_Witness ==
  /\ pc = "scope"
  /\ Len(forked) = 2
  /\ \E p, q \in ForkedChildren :
       /\ k_pc[p] = "loop" /\ k_runs[p] >= 1 /\ child[p].st = "running"
       /\ k_pc[q] = "panicked" /\ child[q].st = "exited"

====
